---- MODULE Spec2Model ----
(***************************************************************************)
(* A model of the asynchronous risk-result engine of gs_quant              *)
(* (gs_quant/risk/results.py): PricingFuture, CompositeResultFuture and    *)
(* its subclasses, the composition function _compose, and the addition of  *)
(* result trees.                                                           *)
(*                                                                         *)
(* Spec        the futures engine: one composite future built over leaf    *)
(*             futures that worker threads complete concurrently with the  *)
(*             thread that constructs the composite.                       *)
(* SpecOps     the engine with a calling thread that also calls result(),  *)
(*             +, * and indexing.                                          *)
(* SpecSeries  _compose on two series (a pure function, applied to inputs  *)
(*             drawn from bounded sets).                                   *)
(* SpecTree    PortfolioRiskResult.__add__ on two result trees whose leaf  *)
(*             mappings live in a heap, so that aliasing is visible.       *)
(* SpecIndex   index expressions (date, measure, instrument) on a tree.    *)
(* SpecCalls   single calls on a tree: tree[int], tree[instrument],        *)
(*             iteration, and products with a number or a non-number.      *)
(* SpecCancel  two composites sharing a child, cancelled and completed in  *)
(*             any order.                                                  *)
(* SpecPool    ThreadPoolManager.run_async (gs_quant/api/utils.py).        *)
(* SpecClock   the backtest Clock and DataHandler                          *)
(*             (gs_quant/backtests/data_handler.py).                       *)
(***************************************************************************)
EXTENDS Integers, Sequences, FiniteSets, TLC

\* ------------------------------------------------------------------ bounds

NumLeaves == 2        \* leaf futures (and worker threads completing them)
MaxOps == 1           \* operations the calling thread performs besides construction

Leaves == 1..NumLeaves
Main == 0                       \* the calling thread; worker i completes leaf i
Threads == {Main} \cup Leaves
CompT == NumLeaves + 1          \* the composite future
RetT == NumLeaves + 2           \* the PricingFuture returned by + or *
RetM == NumLeaves + 3           \* the MultipleRiskMeasureFuture returned by MRMF.__add__
LeafLike == Leaves \cup {RetT}
Tasks == Leaves \cup {CompT, RetT, RetM}

Kinds == {"list", "multi", "hist"}

\* ------------------------------------------------------- result values

\* A ResultInfo value.  tag: "none" (no value), "scalar" (ScalarWithInfo),
\* "series" (SeriesWithInfo), "error" (ErrorValue), "raise" (the function raised).
\* NaN is the float NaN a series may hold.
NaN == -99
NoValue == [tag |-> "none", date |-> 0, val |-> 0, rows |-> <<>>]
Scalar(d, v) == [tag |-> "scalar", date |-> d, val |-> v, rows |-> <<>>]
ErrorValue(d, e) == [tag |-> "error", date |-> d, val |-> e, rows |-> <<>>]
Series(r) == [tag |-> "series", date |-> 0, val |-> 0, rows |-> r]
\* DataFrameWithInfo: rows are <<index, record>> pairs; date is risk_key.date;
\* val is 1 when the index is named 'date' (then the indices are dates), else 0
\* (then they are the row numbers).
Table(d, named, r) == [tag |-> "table", date |-> d, val |-> named, rows |-> r]
Raised == [tag |-> "raise", date |-> 0, val |-> 0, rows |-> <<>>]

IsError(r) == r.tag = "error"

\* The value of a composite future: tag "none", "list" (CompositeResultFuture),
\* "mrmr" (MultipleRiskMeasureResult: items[k] is the value of measure k) or
\* "value" (a single ResultInfo, items = <<value>>).
NoComp == [tag |-> "none", items |-> <<>>]

\* ------------------------------------------------ series (pandas) helpers

\* A series' rows are <<date, value>> pairs with pairwise distinct dates, in
\* index order (not necessarily sorted).
Index(r) == [i \in 1..Len(r) |-> r[i][1]]
DateSet(r) == {r[i][1] : i \in 1..Len(r)}
At(r, d) == r[CHOOSE i \in 1..Len(r) : r[i][1] = d][2]

RECURSIVE SortedSeq(_)
SortedSeq(S) ==
  IF S = {} THEN <<>>
  ELSE LET m == CHOOSE x \in S : \A y \in S : x <= y
       IN <<m>> \o SortedSeq(S \ {m})

\* pandas Index.union (sort=None): an empty or equal operand returns the other
\* index as it is; otherwise the union, sorted.
IndexUnion(a, b) ==
  IF Len(b) = 0 \/ a = b THEN a
  ELSE IF Len(a) = 0 THEN b
  ELSE SortedSeq({a[i] : i \in 1..Len(a)} \cup {b[i] : i \in 1..Len(b)})

\* pandas Series.combine_first: self reindexed on the union index, its null
\* (missing or NaN) entries filled from other.
combine_first(self, other) ==
  LET idx == IndexUnion(Index(self), Index(other))
      cell(d) == IF d \in DateSet(self) /\ At(self, d) # NaN THEN At(self, d)
                 ELSE IF d \in DateSet(other) THEN At(other, d)
                 ELSE NaN
  IN [i \in 1..Len(idx) |-> <<idx[i], cell(idx[i])>>]

\* pandas Series.sort_index: rows in ascending date order.
sort_index(r) ==
  LET idx == SortedSeq(DateSet(r))
  IN [i \in 1..Len(idx) |-> <<idx[i], At(r, idx[i])>>]

\* ScalarWithInfo.compose(components): the dated scalars concatenated along
\* the date axis into one series; error components carry no value.
compose(cs) ==
  LET good == SelectSeq(cs, LAMBDA c : c.tag = "scalar")
  IN Series([i \in 1..Len(good) |-> <<good[i].date, good[i].val>>])

\* df.assign(date=df.risk_key.date).set_index('date') unless the index is
\* already named 'date': every row indexed by the table's date.
set_index_date(t) ==
  IF t.val = 1 THEN t.rows
  ELSE [i \in 1..Len(t.rows) |-> <<t.date, t.rows[i][2]>>]

\* DataFrame.sort_index on an index that may repeat: rows in ascending index
\* order, rows of one index in the order they had.
RECURSIVE sort_rows(_)
sort_rows(r) ==
  IF r = <<>> THEN <<>>
  ELSE LET i == CHOOSE k \in 1..Len(r) :
                  /\ \A j \in 1..Len(r) : r[k][1] <= r[j][1]
                  /\ \A j \in 1..(k - 1) : r[j][1] # r[k][1]
       IN <<r[i]>> \o sort_rows(SubSeq(r, 1, i - 1) \o SubSeq(r, i + 1, Len(r)))

\* The table branch of _compose with no row of lhs dropped.
ComposeTables_NoDrop(lhs, rhs) ==
  Table(0, 1, sort_rows(set_index_date(lhs) \o set_index_date(rhs)))

\* lhs.loc[set(lhs.index) - set(rhs.index)].append(rhs).sort_index()
ComposeTables(lhs, rhs) ==
  LET l == set_index_date(lhs)
      r == set_index_date(rhs)
  IN Table(0, 1, sort_rows(SelectSeq(l, LAMBDA row : row[1] \notin DateSet(r)) \o r))

\* _compose with the operands of combine_first exchanged (the left one wins).
_compose_LhsWins(lhs, rhs) ==
  IF lhs.tag = "scalar" /\ rhs.tag = "scalar"
    THEN IF lhs.date = rhs.date THEN rhs ELSE compose(<<lhs, rhs>>)
  ELSE IF lhs.tag = "scalar" /\ rhs.tag = "series"
    THEN Series(sort_index(combine_first(compose(<<lhs>>).rows, rhs.rows)))
  ELSE IF lhs.tag = "series" /\ rhs.tag = "series"
    THEN Series(sort_index(combine_first(lhs.rows, rhs.rows)))
  ELSE IF lhs.tag = "series" /\ rhs.tag = "scalar"
    THEN Series(sort_index(combine_first(compose(<<rhs>>).rows, lhs.rows)))
  ELSE IF lhs.tag = "table" /\ rhs.tag = "table"
    THEN ComposeTables(lhs, rhs)
  ELSE Raised

\* _compose raising for two scalars of different dates instead of composing them.
_compose_ScalarsRaise(lhs, rhs) ==
  IF lhs.tag = "scalar" /\ rhs.tag = "scalar"
    THEN IF lhs.date = rhs.date THEN rhs ELSE Raised
  ELSE IF lhs.tag = "scalar" /\ rhs.tag = "series"
    THEN Series(sort_index(combine_first(compose(<<lhs>>).rows, rhs.rows)))
  ELSE IF lhs.tag = "series" /\ rhs.tag = "series"
    THEN Series(sort_index(combine_first(rhs.rows, lhs.rows)))
  ELSE IF lhs.tag = "series" /\ rhs.tag = "scalar"
    THEN Series(sort_index(combine_first(compose(<<rhs>>).rows, lhs.rows)))
  ELSE IF lhs.tag = "table" /\ rhs.tag = "table"
    THEN ComposeTables(lhs, rhs)
  ELSE Raised

\* _compose restricted to the variants the model carries (scalar, series, table).
_compose(lhs, rhs) ==
  IF lhs.tag = "scalar" /\ rhs.tag = "scalar"
    THEN IF lhs.date = rhs.date THEN rhs ELSE compose(<<lhs, rhs>>)
  ELSE IF lhs.tag = "scalar" /\ rhs.tag = "series"
    THEN Series(sort_index(combine_first(compose(<<lhs>>).rows, rhs.rows)))
  ELSE IF lhs.tag = "series" /\ rhs.tag = "series"
    THEN Series(sort_index(combine_first(rhs.rows, lhs.rows)))
  ELSE IF lhs.tag = "series" /\ rhs.tag = "scalar"
    THEN Series(sort_index(combine_first(compose(<<rhs>>).rows, lhs.rows)))
  ELSE IF lhs.tag = "table" /\ rhs.tag = "table"
    THEN ComposeTables(lhs, rhs)
  ELSE Raised

\* ------------------------------------------------------------- the state

VARIABLES
  futures,        \* CompositeResultFuture.__futures: the children, in the order given
  kind,           \* the composite's class: "list", "multi" or "hist"
  fstate,         \* Future._state of every task: "PENDING" or "FINISHED"
  fresult,        \* Future._result of the leaf-like tasks (a ResultInfo value)
  cresult,        \* Future._result of the composite tasks CompT and RetM
  callbacks,      \* Future._done_callbacks of a leaf: how often CompT.__cb is registered
  pending,        \* CompositeResultFuture.__pending
  setCalls,       \* how often set_result was invoked on each task
  invalidState,   \* how often set_result raised InvalidStateError
  entered,        \* PricingContext.current.active_context.is_entered
  pc,             \* each thread's position
  cbLeft,         \* callbacks a completing worker still has to invoke
  gk,             \* position in __futures of the result() call _set_result is at
  ci,             \* position in __futures the constructor's loop is at
  mctx,           \* where the calling thread runs _set_result from: "inline" or "final"
  ctor,           \* the composite's constructor: "new", "running", "done", "raised"
  mop,            \* the operation the calling thread is in
  margs,          \* its operands
  todo,           \* the tasks it still has to call result() on, in order
  lastOp,         \* the outcome of the last operation of the calling thread
  opsLeft,        \* operations the calling thread may still start
  startDone,      \* whether every child was done when the constructor started
  raced,          \* whether a child completed while the constructor ran
  completionLog   \* the leaves in the order they completed

engineVars == <<futures, kind, fstate, fresult, cresult, callbacks, pending, setCalls,
                invalidState, entered, pc, cbLeft, gk, ci, mctx, ctor, mop, margs,
                todo, lastOp, opsLeft, startDone, raced, completionLog>>

Done(t) == fstate[t] = "FINISHED"

\* The date a leaf is priced for: one date per child of a historical future,
\* one pricing date otherwise.
LeafDate(i) == IF kind = "hist" THEN i ELSE 1
LeafValue(i, ok) ==
  IF ok THEN Scalar(LeafDate(i), 10 * i) ELSE ErrorValue(LeafDate(i), -i)

NoOp == [op |-> "none", a |-> 0, b |-> 0, outcome |-> "none",
         value |-> NoValue, cvalue |-> NoComp]

\* ------------------------------------------------- PricingFuture.result

\* result without the guard on the entered pricing context
result_NoGuard(t) == IF Done(t) THEN "return" ELSE "block"

\* result that returns without waiting for the task
result_NoWait(t) == IF ~Done(t) /\ entered THEN "raise" ELSE "return"

\* PricingFuture.result on task t: "raise" (RuntimeError), "return", or "block"
\* (Future.result waits for the task to finish).
result(t) ==
  IF ~Done(t) /\ entered THEN "raise"
  ELSE IF Done(t) THEN "return"
  ELSE "block"

\* ------------------------------------------------- _set_result variants

\* [f.result() for f in self.__futures]
ChildResults == [k \in 1..Len(futures) |-> fresult[futures[k]]]

\* the results taken in the reverse of the children's order
ListResult_Reversed(rs) ==
  [tag |-> "list", items |-> [k \in 1..Len(rs) |-> rs[Len(rs) + 1 - k]]]

\* CompositeResultFuture._set_result
ListResult(rs) == [tag |-> "list", items |-> rs]

\* MultipleRiskMeasureFuture._set_result: zip(measures, results)
MultiResult(rs) == [tag |-> "mrmr", items |-> rs]

\* the last result, not the first, stored when every child failed
HistResult_LastError(rs) ==
  LET good == {k \in 1..Len(rs) : ~IsError(rs[k])}
  IN IF good = {} THEN [tag |-> "value", items |-> <<rs[Len(rs)]>>]
     ELSE [tag |-> "value", items |-> <<compose(rs)>>]

\* HistoricalPricingFuture._set_result
HistResult(rs) ==
  LET good == {k \in 1..Len(rs) : ~IsError(rs[k])}
  IN IF good = {} THEN [tag |-> "value", items |-> <<rs[1]>>]
     ELSE [tag |-> "value", items |-> <<compose(rs)>>]

_set_result(k, rs) ==
  IF k = "list" THEN ListResult(rs)
  ELSE IF k = "multi" THEN MultiResult(rs)
  ELSE HistResult(rs)

\* `if not self.__pending` in __init__ and __cb
NotPending(p) == p = {}

\* ----------------------------------------------------------------- Init

FutureTuples == [1..NumLeaves -> Leaves]

\* The state after the leaf futures are created and before the composite is
\* constructed over the tuple fs of them; the calling thread may start n
\* operations.
InitEngine(fs, k, n) ==
  /\ futures = fs
  /\ kind = k
  /\ fstate = [t \in Tasks |-> "PENDING"]
  /\ fresult = [t \in LeafLike |-> NoValue]
  /\ setCalls = [t \in Tasks |-> 0]
  /\ pc = [th \in Threads |-> IF th = Main THEN "idle" ELSE "run"]
  /\ cresult = [t \in {CompT, RetM} |-> NoComp]
  /\ callbacks = [t \in Leaves |-> 0]
  /\ pending = {}
  /\ invalidState = 0
  /\ entered = FALSE
  /\ cbLeft = [th \in Threads |-> 0]
  /\ gk = [th \in Threads |-> 0]
  /\ ci = 0
  /\ mctx = "none"
  /\ ctor = "new"
  /\ mop = "none"
  /\ margs = <<0, 0>>
  /\ todo = <<>>
  /\ lastOp = NoOp
  /\ opsLeft = n
  /\ startDone = FALSE
  /\ raced = FALSE
  /\ completionLog = <<>>

\* -------------------------------------------- completion of a leaf future

\* Future.set_result on leaf i, on worker thread i: the state becomes FINISHED
\* under the future's lock; the registered callbacks are invoked afterwards.
Complete(i) ==
  /\ pc[i] = "run"
  /\ fstate[i] = "PENDING"
  /\ \E ok \in BOOLEAN : fresult' = [fresult EXCEPT ![i] = LeafValue(i, ok)]
  /\ fstate' = [fstate EXCEPT ![i] = "FINISHED"]
  /\ setCalls' = [setCalls EXCEPT ![i] = @ + 1]
  /\ cbLeft' = [cbLeft EXCEPT ![i] = callbacks[i]]
  /\ pc' = [pc EXCEPT ![i] = IF callbacks[i] > 0 THEN "cb_discard" ELSE "done"]
  /\ raced' = (raced \/ ctor = "running")
  /\ completionLog' = Append(completionLog, i)
  /\ UNCHANGED <<futures, kind, cresult, callbacks, pending, invalidState, entered, gk,
                 ci, mctx, ctor, mop, margs, todo, lastOp, opsLeft, startDone>>

\* ------------------------------------------ CompositeResultFuture.__cb

\* The child whose completion the callback run by thread th is for: a worker
\* runs the callbacks of its own leaf, the calling thread the callback that
\* add_done_callback invokes at once for an already finished child.
CbChild(th) == IF th = Main THEN futures[ci] ELSE th

\* self.__pending.discard(future)
CbDiscard(th) ==
  /\ pc[th] = "cb_discard"
  /\ pending' = pending \ {CbChild(th)}
  /\ pc' = [pc EXCEPT ![th] = "cb_check"]
  /\ UNCHANGED <<futures, kind, fstate, fresult, cresult, callbacks, setCalls,
                 invalidState, entered, cbLeft, gk, ci, mctx, ctor, mop, margs, todo,
                 lastOp, opsLeft, startDone, raced, completionLog>>

\* Thread th leaves __cb (returning, or by an exception that
\* Future._invoke_callbacks / add_done_callback logs and drops), or the
\* constructor leaves its final _set_result (raised: by an exception).
Leave(th, raised) ==
  IF th # Main
    THEN /\ pc' = [pc EXCEPT ![th] = IF cbLeft[th] > 1 THEN "cb_discard" ELSE "done"]
         /\ cbLeft' = [cbLeft EXCEPT ![th] = IF @ > 0 THEN @ - 1 ELSE 0]
         /\ UNCHANGED <<ctor, mctx>>
  ELSE IF mctx = "inline"
    THEN /\ pc' = [pc EXCEPT ![Main] = "c_addpend"]
         /\ mctx' = "none"
         /\ UNCHANGED <<ctor, cbLeft>>
  ELSE /\ pc' = [pc EXCEPT ![Main] = "idle"]
       /\ mctx' = "none"
       /\ ctor' = IF raised THEN "raised" ELSE "done"
       /\ UNCHANGED cbLeft

\* if not self.__pending: self._set_result()
CbCheck(th) ==
  /\ pc[th] = "cb_check"
  /\ IF NotPending(pending)
       THEN /\ pc' = [pc EXCEPT ![th] = "gather"]
            /\ gk' = [gk EXCEPT ![th] = 1]
            /\ UNCHANGED <<cbLeft, ctor, mctx>>
       ELSE /\ Leave(th, FALSE)
            /\ UNCHANGED gk
  /\ UNCHANGED <<futures, kind, fstate, fresult, cresult, callbacks, pending, setCalls,
                 invalidState, entered, ci, mop, margs, todo, lastOp, opsLeft,
                 startDone, raced, completionLog>>

\* _set_result: the next f.result() of [f.result() for f in self.__futures]
Gather(th) ==
  /\ pc[th] = "gather"
  /\ LET o == result(futures[gk[th]])
     IN IF o = "return"
          THEN /\ IF gk[th] = Len(futures)
                    THEN pc' = [pc EXCEPT ![th] = "set"] /\ UNCHANGED gk
                    ELSE gk' = [gk EXCEPT ![th] = @ + 1] /\ UNCHANGED pc
               /\ UNCHANGED <<cbLeft, ctor, mctx>>
        ELSE IF o = "raise"
          THEN Leave(th, TRUE) /\ UNCHANGED gk
        ELSE /\ pc' = [pc EXCEPT ![th] = "gather_wait"]
             /\ UNCHANGED <<gk, cbLeft, ctor, mctx>>
  /\ UNCHANGED <<futures, kind, fstate, fresult, cresult, callbacks, pending, setCalls,
                 invalidState, entered, ci, mop, margs, todo, lastOp, opsLeft,
                 startDone, raced, completionLog>>

\* Future.result returns to _set_result once the child it waits for is done.
GatherWake(th) ==
  /\ pc[th] = "gather_wait"
  /\ Done(futures[gk[th]])
  /\ IF gk[th] = Len(futures)
       THEN pc' = [pc EXCEPT ![th] = "set"] /\ UNCHANGED gk
       ELSE /\ gk' = [gk EXCEPT ![th] = @ + 1]
            /\ pc' = [pc EXCEPT ![th] = "gather"]
  /\ UNCHANGED <<futures, kind, fstate, fresult, cresult, callbacks, pending, setCalls,
                 invalidState, entered, cbLeft, ci, mctx, ctor, mop, margs, todo,
                 lastOp, opsLeft, startDone, raced, completionLog>>

\* _set_result: self.set_result(...) on the composite.  Future.set_result on a
\* future that is already finished raises InvalidStateError.
SetResult(th) ==
  /\ pc[th] = "set"
  /\ setCalls' = [setCalls EXCEPT ![CompT] = @ + 1]
  /\ IF fstate[CompT] = "PENDING"
       THEN /\ fstate' = [fstate EXCEPT ![CompT] = "FINISHED"]
            /\ cresult' = [cresult EXCEPT ![CompT] = _set_result(kind, ChildResults)]
            /\ UNCHANGED invalidState
            /\ Leave(th, FALSE)
       ELSE /\ invalidState' = invalidState + 1
            /\ UNCHANGED <<fstate, cresult>>
            /\ Leave(th, TRUE)
  /\ UNCHANGED <<futures, kind, fresult, callbacks, pending, entered, gk, ci, mop,
                 margs, todo, lastOp, opsLeft, startDone, raced, completionLog>>

\* --------------------------------- CompositeResultFuture.__init__

CtorStart ==
  /\ pc[Main] = "idle"
  /\ ctor = "new"
  /\ ctor' = "running"
  /\ ci' = 1
  /\ pc' = [pc EXCEPT ![Main] = "c_loop"]
  /\ startDone' = \A k \in 1..Len(futures) : Done(futures[k])
  /\ UNCHANGED <<futures, kind, fstate, fresult, cresult, callbacks, pending, setCalls,
                 invalidState, entered, cbLeft, gk, mctx, mop, margs, todo, lastOp,
                 opsLeft, raced, completionLog>>

\* for future in self.__futures: if not future.done():
CtorLoop ==
  /\ pc[Main] = "c_loop"
  /\ IF ci > Len(futures)
       THEN pc' = [pc EXCEPT ![Main] = "c_final"] /\ UNCHANGED ci
       ELSE IF Done(futures[ci])
         THEN ci' = ci + 1 /\ UNCHANGED pc
         ELSE pc' = [pc EXCEPT ![Main] = "c_addcb"] /\ UNCHANGED ci
  /\ UNCHANGED <<futures, kind, fstate, fresult, cresult, callbacks, pending, setCalls,
                 invalidState, entered, cbLeft, gk, mctx, ctor, mop, margs, todo,
                 lastOp, opsLeft, startDone, raced, completionLog>>

\* future.add_done_callback(self.__cb): registers the callback on a pending
\* future, and calls it at once, on this thread, for a finished one.
CtorAddCallback ==
  /\ pc[Main] = "c_addcb"
  /\ IF ~Done(futures[ci])
       THEN /\ callbacks' = [callbacks EXCEPT ![futures[ci]] = @ + 1]
            /\ pc' = [pc EXCEPT ![Main] = "c_addpend"]
            /\ UNCHANGED mctx
       ELSE /\ pc' = [pc EXCEPT ![Main] = "cb_discard"]
            /\ mctx' = "inline"
            /\ UNCHANGED callbacks
  /\ UNCHANGED <<futures, kind, fstate, fresult, cresult, pending, setCalls,
                 invalidState, entered, cbLeft, gk, ci, ctor, mop, margs, todo, lastOp,
                 opsLeft, startDone, raced, completionLog>>

\* self.__pending.add(future)
CtorAddPending ==
  /\ pc[Main] = "c_addpend"
  /\ pending' = pending \cup {futures[ci]}
  /\ ci' = ci + 1
  /\ pc' = [pc EXCEPT ![Main] = "c_loop"]
  /\ UNCHANGED <<futures, kind, fstate, fresult, cresult, callbacks, setCalls,
                 invalidState, entered, cbLeft, gk, mctx, ctor, mop, margs, todo,
                 lastOp, opsLeft, startDone, raced, completionLog>>

\* a constructor that leaves the result to the callbacks alone
CtorFinal_NoSet ==
  /\ pc[Main] = "c_final"
  /\ pc' = [pc EXCEPT ![Main] = "idle"]
  /\ ctor' = "done"
  /\ UNCHANGED <<futures, kind, fstate, fresult, cresult, callbacks, pending, setCalls,
                 invalidState, entered, cbLeft, gk, ci, mctx, mop, margs, todo, lastOp,
                 opsLeft, startDone, raced, completionLog>>

\* if not self.__pending: self._set_result()
CtorFinal ==
  /\ pc[Main] = "c_final"
  /\ IF NotPending(pending)
       THEN /\ pc' = [pc EXCEPT ![Main] = "gather"]
            /\ gk' = [gk EXCEPT ![Main] = 1]
            /\ mctx' = "final"
            /\ UNCHANGED ctor
       ELSE /\ pc' = [pc EXCEPT ![Main] = "idle"]
            /\ ctor' = "done"
            /\ UNCHANGED <<gk, mctx>>
  /\ UNCHANGED <<futures, kind, fstate, fresult, cresult, callbacks, pending, setCalls,
                 invalidState, entered, cbLeft, ci, mop, margs, todo, lastOp, opsLeft,
                 startDone, raced, completionLog>>

\* ----------------------------- MultipleRiskMeasureResult.__add__ (same instrument)

\* MultipleRiskMeasureResult.dates
MRMRDates(m) ==
  UNION {DateSet(m.items[k].rows) : k \in {j \in 1..Len(m.items) : m.items[j].tag = "series"}}

RaisedComp == [tag |-> "raise", items |-> <<>>]

\* self + other for two mappings of one instrument over the same measures:
\* ValueError when they overlap on dates, else the per-measure _compose.
MRMRAdd(l, r) ==
  IF Len(l.items) > 0 /\ MRMRDates(l) \cap MRMRDates(r) # {} THEN RaisedComp
  ELSE LET items == [k \in 1..Len(l.items) |-> _compose(l.items[k], r.items[k])]
       IN IF \E k \in 1..Len(items) : items[k].tag = "raise" THEN RaisedComp
          ELSE [tag |-> "mrmr", items |-> items]

\* ------------------------------------- operations of the calling thread

\* with PricingContext(): ... : the context is entered and left.
EnterContext ==
  /\ pc[Main] = "idle" /\ ~entered
  /\ entered' = TRUE
  /\ UNCHANGED <<futures, kind, fstate, fresult, cresult, callbacks, pending, setCalls,
                 invalidState, pc, cbLeft, gk, ci, mctx, ctor, mop, margs, todo, lastOp,
                 opsLeft, startDone, raced, completionLog>>

ExitContext ==
  /\ pc[Main] = "idle" /\ entered
  /\ entered' = FALSE
  /\ UNCHANGED <<futures, kind, fstate, fresult, cresult, callbacks, pending, setCalls,
                 invalidState, pc, cbLeft, gk, ci, mctx, ctor, mop, margs, todo, lastOp,
                 opsLeft, startDone, raced, completionLog>>

\* The calling thread starts operation op on operands a, b; calls lists the
\* tasks whose result() the operation evaluates, in the order of evaluation.
Start(op, a, b, calls) ==
  /\ pc[Main] = "idle" /\ opsLeft > 0
  /\ mop' = op
  /\ margs' = <<a, b>>
  /\ todo' = calls
  /\ opsLeft' = opsLeft - 1
  /\ lastOp' = NoOp
  /\ pc' = [pc EXCEPT ![Main] = "call"]
  /\ UNCHANGED <<futures, kind, fstate, fresult, cresult, callbacks, pending, setCalls,
                 invalidState, entered, cbLeft, gk, ci, mctx, ctor, startDone, raced,
                 completionLog>>

\* task.result()
StartResult == \E t \in Leaves \cup {CompT} :
  /\ (t = CompT => ctor = "done")
  /\ Start("result", t, 0, <<t>>)

\* PricingFuture.__add__: operand = other.result(), then self.result()
StartAdd == \E a \in Leaves, b \in Leaves : Start("add", a, b, <<b, a>>)

\* PricingFuture.__mul__: self.result() * other
StartMul == \E a \in Leaves : Start("mul", a, 2, <<a>>)

\* tree[i] (PortfolioRiskResult.__result): path(self.futures).result()
StartIndex == \E i \in 1..NumLeaves :
  /\ ctor = "done"
  /\ Start("index", i, 0, <<futures[i]>>)

\* MultipleRiskMeasureFuture.__add__: self.result() + other.result()
StartAddMulti ==
  /\ kind = "multi" /\ ctor = "done"
  /\ Start("addmulti", CompT, CompT, <<CompT, CompT>>)

\* The operation ends with the given outcome: the calling thread is idle again.
End(outcome, v, cv) ==
  /\ lastOp' = [op |-> mop, a |-> margs[1], b |-> margs[2], outcome |-> outcome,
                value |-> v, cvalue |-> cv]
  /\ mop' = "none"
  /\ margs' = <<0, 0>>
  /\ pc' = [pc EXCEPT ![Main] = "idle"]

\* The next result() call of the operation.
OpCall ==
  /\ pc[Main] = "call" /\ todo # <<>>
  /\ LET o == result(Head(todo))
     IN IF o = "return"
          THEN todo' = Tail(todo) /\ UNCHANGED <<pc, lastOp, mop, margs>>
        ELSE IF o = "raise"
          THEN End("RuntimeError", NoValue, NoComp) /\ todo' = <<>>
        ELSE /\ pc' = [pc EXCEPT ![Main] = "wait"]
             /\ UNCHANGED <<todo, lastOp, mop, margs>>
  /\ UNCHANGED <<futures, kind, fstate, fresult, cresult, callbacks, pending, setCalls,
                 invalidState, entered, cbLeft, gk, ci, mctx, ctor, opsLeft, startDone,
                 raced, completionLog>>

\* Future.result returns once the awaited task is finished.
OpWake ==
  /\ pc[Main] = "wait"
  /\ Done(Head(todo))
  /\ todo' = Tail(todo)
  /\ pc' = [pc EXCEPT ![Main] = "call"]
  /\ UNCHANGED <<futures, kind, fstate, fresult, cresult, callbacks, pending, setCalls,
                 invalidState, entered, cbLeft, gk, ci, mctx, ctor, mop, margs, lastOp,
                 opsLeft, startDone, raced, completionLog>>

\* self.result() * other on a resolved value
Times(v, k) == IF v.tag = "scalar" THEN Scalar(v.date, v.val * k) ELSE Raised

\* tree[i] answering with a failed sibling's error when any child failed
OpValue_SiblingError ==
  IF mop = "add" THEN _compose(fresult[margs[1]], fresult[margs[2]])
  ELSE IF mop = "mul" THEN Times(fresult[margs[1]], margs[2])
  ELSE IF mop = "index"
    THEN IF \E k \in 1..Len(futures) : IsError(fresult[futures[k]])
           THEN fresult[futures[CHOOSE k \in 1..Len(futures) : IsError(fresult[futures[k]])]]
         ELSE fresult[futures[margs[1]]]
  ELSE IF mop = "result" /\ margs[1] \in Leaves THEN fresult[margs[1]]
  ELSE NoValue

\* The value the operation computes from its operands' results.
OpValue ==
  IF mop = "add" THEN _compose(fresult[margs[1]], fresult[margs[2]])
  ELSE IF mop = "mul" THEN Times(fresult[margs[1]], margs[2])
  ELSE IF mop = "index" THEN fresult[futures[margs[1]]]
  ELSE IF mop = "result" /\ margs[1] \in Leaves THEN fresult[margs[1]]
  ELSE NoValue

\* Every result() has returned: result() and tree[i] return the value; + and *
\* return self.__class__(value), a new future constructed with its result;
\* MultipleRiskMeasureFuture.__add__ constructs ret, whose constructor finds
\* every child done and sets the result.
OpFinish ==
  /\ pc[Main] = "call" /\ todo = <<>>
  /\ IF mop \in {"add", "mul"}
       THEN IF OpValue.tag = "raise"
              THEN /\ End("ComposeError", NoValue, NoComp)
                   /\ UNCHANGED <<fstate, fresult, cresult, setCalls>>
              ELSE /\ fstate' = [fstate EXCEPT ![RetT] = "FINISHED"]
                   /\ fresult' = [fresult EXCEPT ![RetT] = OpValue]
                   /\ setCalls' = [setCalls EXCEPT ![RetT] = 1]
                   /\ End("returned", OpValue, NoComp)
                   /\ UNCHANGED cresult
     ELSE IF mop = "addmulti"
       THEN LET sum == MRMRAdd(cresult[CompT], cresult[CompT])
            IN IF sum.tag = "raise"
                 THEN /\ End("ComposeError", NoValue, NoComp)
                      /\ UNCHANGED <<fstate, fresult, cresult, setCalls>>
                 ELSE /\ fstate' = [fstate EXCEPT ![RetM] = "FINISHED"]
                      /\ cresult' = [cresult EXCEPT ![RetM] = sum]
                      /\ setCalls' = [setCalls EXCEPT ![RetM] = 1]
                      /\ pc' = [pc EXCEPT ![Main] = "am_set"]
                      /\ UNCHANGED <<fresult, lastOp, mop, margs>>
     ELSE /\ End("returned", OpValue, IF margs[1] = CompT THEN cresult[CompT] ELSE NoComp)
          /\ UNCHANGED <<fstate, fresult, cresult, setCalls>>
  /\ UNCHANGED <<futures, kind, callbacks, pending, invalidState, entered, cbLeft, gk,
                 ci, mctx, ctor, todo, opsLeft, startDone, raced, completionLog>>

\* MultipleRiskMeasureFuture.__add__: ret._set_result() on the constructed ret
AddMultiSet ==
  /\ pc[Main] = "am_set"
  /\ setCalls' = [setCalls EXCEPT ![RetM] = @ + 1]
  /\ IF fstate[RetM] = "PENDING"
       THEN /\ fstate' = [fstate EXCEPT ![RetM] = "FINISHED"]
            /\ End("returned", NoValue, cresult[RetM])
            /\ UNCHANGED invalidState
       ELSE /\ invalidState' = invalidState + 1
            /\ End("InvalidStateError", NoValue, NoComp)
            /\ UNCHANGED fstate
  /\ UNCHANGED <<futures, kind, fresult, cresult, callbacks, pending, entered, cbLeft,
                 gk, ci, mctx, ctor, todo, opsLeft, startDone, raced, completionLog>>

\* ------------------------------------------------------ the engine's steps

EngineNext ==
  \/ \E i \in Leaves : Complete(i)
  \/ \E th \in Threads : CbDiscard(th)
  \/ \E th \in Threads : CbCheck(th)
  \/ \E th \in Threads : Gather(th)
  \/ \E th \in Threads : GatherWake(th)
  \/ \E th \in Threads : SetResult(th)
  \/ CtorStart
  \/ CtorLoop
  \/ CtorAddCallback
  \/ CtorAddPending
  \/ CtorFinal
  \/ EnterContext
  \/ ExitContext

OpsNext ==
  \/ StartResult
  \/ StartAdd
  \/ StartMul
  \/ StartIndex
  \/ StartAddMulti
  \/ OpCall
  \/ OpWake
  \/ OpFinish
  \/ AddMultiSet

\* ------------------------------------------ _compose applied to two values

MaxDate == 3          \* dates a composed value may carry: 1..MaxDate
MaxRows == 2          \* rows of a series handed to _compose

Dates == 1..MaxDate

\* The cells operand `side` (1: lhs, 2: rhs) may hold at date d: its own value
\* or NaN.
Cells(side) == {<<d, 10 * side + d>> : d \in Dates} \cup {<<d, NaN>> : d \in Dates}

\* The series of at most MaxRows rows, in any index order, dates distinct.
SeriesRows(side) ==
  {r \in UNION {[1..n -> Cells(side)] : n \in 0..MaxRows} :
     \A i, j \in 1..Len(r) : i # j => r[i][1] # r[j][1]}

\* The tables of at most MaxRows rows: of one date (index not named 'date',
\* rows numbered from 0) or already indexed by date (dates may repeat, in any
\* order).  Row i of operand `side` holds the record 10 * side + i.
Tables(side) ==
  {Table(d, 0, [i \in 1..n |-> <<i - 1, 10 * side + i>>]) : d \in Dates, n \in 1..MaxRows}
    \cup {Table(0, 1, [i \in 1..Len(ds) |-> <<ds[i], 10 * side + i>>]) :
             ds \in UNION {[1..n -> Dates] : n \in 0..MaxRows}}

Operands(side) ==
  {Series(r) : r \in SeriesRows(side)} \cup {Scalar(d, 10 * side + d) : d \in Dates}
    \cup Tables(side)

VARIABLES
  composeLhs,     \* _compose: lhs
  composeRhs,     \* _compose: rhs
  composed        \* what _compose returned (tag "none": not called yet)

seriesVars == <<composeLhs, composeRhs, composed>>

InitSeries ==
  /\ composeLhs \in Operands(1)
  /\ composeRhs \in Operands(2)
  /\ composed = NoValue

SeriesIdle ==
  /\ composeLhs = NoValue
  /\ composeRhs = NoValue
  /\ composed = NoValue

\* the call _compose(lhs, rhs)
Compose ==
  /\ composed.tag = "none"
  /\ composeLhs.tag # "none"
  /\ composed' = _compose(composeLhs, composeRhs)
  /\ UNCHANGED <<composeLhs, composeRhs>>

\* -------------------------------------------- PortfolioRiskResult.__add__

NumInstruments == 2   \* instruments a portfolio draws from
NumMeasures == 2      \* risk measures a tree may be computed for
MaxPortfolio == 2     \* instruments in one operand's portfolio
NumDates == 2         \* dates a historical operand may be computed for
NumProvenance == 2    \* pricing contexts (scenario, location) an operand may come from

Instruments == 1..NumInstruments
Measures == 1..NumMeasures
\* risk keys without date and measure: historical_risk_key(key).ex_measure
Provenances == 1..NumProvenance

Range(s) == {s[i] : i \in 1..Len(s)}

\* The portfolios (duplicates allowed) and the risk-measure tuples of an operand.
Portfolios == UNION {[1..n -> Instruments] : n \in 1..MaxPortfolio}
MeasureTuples ==
  {ms \in UNION {[1..n -> Measures] : n \in 1..NumMeasures} :
     \A i, j \in 1..Len(ms) : i # j => ms[i] # ms[j]}
\* The dates of an operand's results: none (scalars) or the index of its series.
TreeDateSets == SUBSET (1..NumDates)

\* Heap addresses of the MultipleRiskMeasureResult mappings: an operand's own
\* leaves, the mappings as_multiple_result_futures wraps a single-measure
\* operand's leaves in, and the leaves of an elementwise sum.
Own(side, k) == (side - 1) * MaxPortfolio + k
Wrapper(side, k) == (side + 1) * MaxPortfolio + k
Sum(k) == 4 * MaxPortfolio + k

\* The value operand `side` holds at position k for measure m: a scalar, or
\* for a historical operand a series with a different value at every date.
Value(side, k, m, ds) ==
  LET n == 100 * side + 10 * k + m
      idx == SortedSeq(ds)
  IN IF ds = {} THEN Scalar(1, n)
     ELSE Series([i \in 1..Len(idx) |-> <<idx[i], 1000 * idx[i] + n>>])

\* A leaf future: a PricingFuture holding val (ref = 0), or a
\* MultipleRiskMeasureFuture whose result is the mapping at heap address ref.
Leaf(ref, val) == [ref |-> ref, val |-> val]

NoTree ==
  [side |-> 0, prov |-> 0, portfolio |-> <<>>, measures |-> <<>>, dset |-> {}, futs |-> <<>>]

\* The tree Portfolio.calc returns for measures ms: PricingFuture leaves for
\* one measure, MultipleRiskMeasureFuture leaves for several.
MakeTree(side, pv, pf, ms, ds) ==
  [side |-> side, prov |-> pv, portfolio |-> pf, measures |-> ms, dset |-> ds,
   futs |-> [k \in 1..Len(pf) |->
               IF Len(ms) > 1 THEN Leaf(Own(side, k), NoValue)
               ELSE Leaf(0, Value(side, k, ms[1], ds))]]

\* The mappings an operand's own leaves hold when it is handed to the caller.
OwnHeap(t) ==
  IF Len(t.measures) > 1
    THEN [a \in {Own(t.side, k) : k \in 1..Len(t.portfolio)} |->
            [m \in Range(t.measures) |->
               Value(t.side, a - (t.side - 1) * MaxPortfolio, m, t.dset)]]
    ELSE <<>>

VARIABLES
  treeSelf,       \* PortfolioRiskResult.__add__: self
  treeOther,      \* PortfolioRiskResult.__add__: other
  heap,           \* the MultipleRiskMeasureResult mappings, by address
  treeRet,        \* the tree __add__ returned
  treeOutcome     \* "none" (not called), "returned" or the exception raised

treeVars == <<treeSelf, treeOther, heap, treeRet, treeOutcome>>

InitTree ==
  /\ \E pv \in Provenances, pf \in Portfolios, ms \in MeasureTuples, ds \in TreeDateSets :
       treeSelf = MakeTree(1, pv, pf, ms, ds)
  /\ \E pv \in Provenances, pf \in Portfolios, ms \in MeasureTuples, ds \in TreeDateSets :
       treeOther = MakeTree(2, pv, pf, ms, ds)
  /\ heap = OwnHeap(treeSelf) @@ OwnHeap(treeOther)
  /\ treeRet = NoTree
  /\ treeOutcome = "none"

TreeIdle ==
  /\ treeSelf = NoTree
  /\ treeOther = NoTree
  /\ heap = <<>>
  /\ treeRet = NoTree
  /\ treeOutcome = "none"

\* Portfolio.paths(instrument): the positions of the instrument, in order.
paths(portfolio, p) ==
  SelectSeq([k \in 1..Len(portfolio) |-> k], LAMBDA k : portfolio[k] = p)

\* MultipleRiskMeasureResult.dates, PortfolioRiskResult.dates
MappingDates(d) ==
  UNION {DateSet(d[m].rows) : m \in {x \in DOMAIN d : d[x].tag = "series"}}

dates(t, h) ==
  UNION {IF t.futs[k].ref # 0 THEN MappingDates(h[t.futs[k].ref])
         ELSE IF t.futs[k].val.tag = "series" THEN DateSet(t.futs[k].val.rows)
         ELSE {} : k \in 1..Len(t.futs)}

\* _risk_keys_compatible(lhs, rhs), on the risk keys without date and measure
\* of the two values
_risk_keys_compatible(lhs, rhs) == lhs = rhs

\* first_value(portfolio_result): the value portfolio_result holds for the first
\* instrument of self's portfolio, here its risk key without date and measure.
first_value(portfolio_result) == portfolio_result.prov

\* MultipleRiskMeasureResult.__add__ for two mappings of the same instrument
\* whose values carry the risk keys lp and rp.
MappingAdd(l, r, lp, rp) ==
  IF ~_risk_keys_compatible(lp, rp)
    THEN [outcome |-> "ValueError(provenance)", mapping |-> <<>>]
  ELSE IF DOMAIN l \cap DOMAIN r # {} /\ MappingDates(l) \cap MappingDates(r) # {}
    THEN [outcome |-> "ValueError(overlap)", mapping |-> <<>>]
  ELSE LET res == [k \in DOMAIN l \cup DOMAIN r |->
                     IF k \in DOMAIN l /\ k \in DOMAIN r THEN _compose(l[k], r[k])
                     ELSE IF k \in DOMAIN l THEN l[k] ELSE r[k]]
       IN IF \E k \in DOMAIN res : res[k].tag = "raise"
            THEN [outcome |-> "RuntimeError", mapping |-> <<>>]
            ELSE [outcome |-> "returned", mapping |-> res]

\* as_multiple_result_futures: a multi-measure tree as it is (its own leaf
\* futures); a single-measure tree with every leaf wrapped in a new
\* MultipleRiskMeasureFuture over {measure: leaf}.
as_multiple_result_futures(t) ==
  IF Len(t.measures) > 1 THEN t.futs
  ELSE [k \in 1..Len(t.futs) |-> Leaf(Wrapper(t.side, k), NoValue)]

WrapperHeap(t) ==
  IF Len(t.measures) > 1 THEN <<>>
  ELSE [a \in {Wrapper(t.side, k) : k \in 1..Len(t.futs)} |->
          (t.measures[1] :> t.futs[a - (t.side + 1) * MaxPortfolio].val)]

\* future.result()[src_risk_measure] = value
Store(h, a, m, v) == [h EXCEPT ![a] = (m :> v) @@ @]

\* set_value(dest_result, src_result, src_risk_measure), from position k on:
\* a KeyError (instrument not in src, measure not in its mapping) skips the leaf.
RECURSIVE set_value(_, _, _, _, _)
set_value(h, dest, src, m, k) ==
  IF k > Len(dest.portfolio) THEN h
  ELSE LET ps == paths(src.portfolio, dest.portfolio[k])
           a == dest.futs[k].ref
           h2 == IF ps = <<>> THEN h
                 ELSE LET leaf == src.futs[ps[1]]
                      IN IF leaf.ref = 0 THEN Store(h, a, m, leaf.val)
                         ELSE IF m \in DOMAIN h[leaf.ref]
                           THEN Store(h, a, m, h[leaf.ref][m])
                         ELSE h
       IN set_value(h2, dest, src, m, k + 1)

\* for risk_measure in ms: set_value(ret, src, risk_measure)
RECURSIVE FillFrom(_, _, _, _, _)
FillFrom(h, ret, src, ms, j) ==
  IF j > Len(ms) THEN h
  ELSE FillFrom(set_value(h, ret, src, ms[j], 1), ret, src, ms, j + 1)

\* The overlap test with `or` for `and`: any one axis overlapping is refused.
ResultsOverlap_Any(self, other, h) ==
  \/ Range(self.measures) \cap Range(other.measures) # {}
  \/ dates(self, h) \cap dates(other, h) # {}
  \/ Range(self.portfolio) \cap Range(other.portfolio) # {}

\* not set(measures).isdisjoint(...) and not set(dates).isdisjoint(...) and
\* not set(all_instruments).isdisjoint(...)
ResultsOverlap(self, other, h) ==
  /\ Range(self.measures) \cap Range(other.measures) # {}
  /\ dates(self, h) \cap dates(other, h) # {}
  /\ Range(self.portfolio) \cap Range(other.portfolio) # {}

\* PortfolioRiskResult.__add__(self, other) for two trees.  strict: whether
\* Future.set_result refuses a finished future (InvalidStateError, Python >= 3.8).
PortfolioRiskResult_add(self, other, h, strict) ==
  LET raised(e, hh) == [outcome |-> e, ret |-> NoTree, heap |-> hh]
      h1 == h @@ WrapperHeap(self) @@ WrapperHeap(other)
      self_futures == as_multiple_result_futures(self)
      other_futures == as_multiple_result_futures(other)
      measures == SortedSeq(Range(self.measures) \cup Range(other.measures))
  IN IF ~_risk_keys_compatible(first_value(self), first_value(self))
       THEN [outcome |-> "returned ValueError", ret |-> NoTree, heap |-> h]
     ELSE IF ResultsOverlap(self, other, h)
       THEN raised("ValueError(overlap)", h)
     ELSE IF self.portfolio = other.portfolio
       THEN LET sums == [k \in 1..Len(self_futures) |->
                           MappingAdd(h1[self_futures[k].ref], h1[other_futures[k].ref],
                                      self.prov, other.prov)]
                bad == {k \in 1..Len(sums) : sums[k].outcome # "returned"}
                first == CHOOSE k \in bad : \A j \in bad : k <= j
            IN IF strict
                 THEN raised(IF 1 \in bad THEN sums[1].outcome ELSE "InvalidStateError", h1)
               ELSE IF bad # {} THEN raised(sums[first].outcome, h1)
               ELSE [outcome |-> "returned",
                     ret |-> [side |-> 0, prov |-> self.prov, portfolio |-> self.portfolio,
                              measures |-> measures,
                              dset |-> {},
                              futs |-> [k \in 1..Len(sums) |-> Leaf(Sum(k), NoValue)]],
                     heap |-> h1 @@ [a \in {Sum(k) : k \in 1..Len(sums)} |->
                                        sums[a - 4 * MaxPortfolio].mapping]]
     ELSE LET ret == [side |-> 0, prov |-> self.prov,
                      portfolio |-> self.portfolio \o other.portfolio,
                      measures |-> measures, dset |-> {},
                      futs |-> self_futures \o other_futures]
              fromSelf == SelectSeq(self.measures, LAMBDA m : m \notin Range(other.measures))
          IN [outcome |-> "returned", ret |-> ret,
              heap |-> IF Len(measures) > 1
                         THEN FillFrom(FillFrom(h1, ret, other, other.measures, 1),
                                       ret, self, fromSelf, 1)
                         ELSE h1]

\* the call self + other
TreeAdd ==
  /\ treeOutcome = "none"
  /\ treeSelf.side # 0
  /\ \E strict \in BOOLEAN :
       LET r == PortfolioRiskResult_add(treeSelf, treeOther, heap, strict)
       IN /\ treeOutcome' = r.outcome
          /\ treeRet' = r.ret
          /\ heap' = r.heap
  /\ UNCHANGED <<treeSelf, treeOther>>

\* ------------------------------------------------ indexing a result tree

\* What an index expression evaluates to: a value (ResultInfo or a raw float), a
\* MultipleRiskMeasureResult mapping, a tree, or the exception raised.
NoRTree ==
  [original |-> FALSE, prov |-> 0, portfolio |-> <<>>, measures |-> <<>>, leaves |-> <<>>]
ValueItem(v) == [kind |-> "value", value |-> v, mapping |-> <<>>, tree |-> NoRTree, error |-> ""]
MappingItem(f) ==
  [kind |-> "mapping", value |-> NoValue, mapping |-> f, tree |-> NoRTree, error |-> ""]
TreeItem(t) == [kind |-> "tree", value |-> NoValue, mapping |-> <<>>, tree |-> t, error |-> ""]
ErrorItem(e) ==
  [kind |-> "error", value |-> NoValue, mapping |-> <<>>, tree |-> NoRTree, error |-> e]
NoItem == [kind |-> "none", value |-> NoValue, mapping |-> <<>>, tree |-> NoRTree, error |-> ""]
\* An exception instance handed back as the value of a call (not raised).
ExceptionObject(e) ==
  [kind |-> "exception object", value |-> NoValue, mapping |-> <<>>, tree |-> NoRTree,
   error |-> e]

\* A float read out of a pandas Series (no risk key).
Raw(v) == [tag |-> "raw", date |-> 0, val |-> v, rows |-> <<>>]

\* A PortfolioRiskResult by what its futures hold: leaves[k] is the result of
\* futures[k], a value or a mapping; prov is the risk key (without date and
\* measure) its values carry. PortfolioRiskResult(...) makes a new object:
\* original tells the tree the caller indexes from the trees built from it.
RTree(pv, pf, ms, ls) ==
  [original |-> FALSE, prov |-> pv, portfolio |-> pf, measures |-> ms, leaves |-> ls]

Resolved(t, h) ==
  [RTree(t.prov, t.portfolio, t.measures,
         [k \in 1..Len(t.futs) |->
            IF t.futs[k].ref # 0 THEN MappingItem(h[t.futs[k].ref])
            ELSE ValueItem(t.futs[k].val)])
   EXCEPT !.original = TRUE]

\* What a tree is indexed by: an int, or an instrument. An instrument of the
\* portfolio is known by its id; a resolved instrument is another object
\* (id 0) that remembers the instrument it was resolved from and the risk key
\* (without measure) of the pricing context it was resolved in.
Position(i) == [type |-> "int", id |-> i, unresolved |-> 0, resolution_key |-> 0]
Instrument(p) == [type |-> "instrument", id |-> p, unresolved |-> 0, resolution_key |-> 0]
ResolvedInstrument(p, pv) ==
  [type |-> "instrument", id |-> 0, unresolved |-> p, resolution_key |-> pv]

\* Portfolio.all_paths of a flat portfolio: its positions, in order.
all_paths(portfolio) == [k \in 1..Len(portfolio) |-> k]

\* __result with the single measure never applied: the leaf's result as it is.
PortfolioRiskResult_result_Whole(t, k, risk_measure) == t.leaves[k]

\* PortfolioRiskResult.__result(path, risk_measure); risk_measure 0 is None.
\* path(self.futures) raises IndexError for a position the tree does not have.
PortfolioRiskResult_result(t, k, risk_measure) ==
  IF k \notin 1..Len(t.leaves) THEN ErrorItem("IndexError")
  ELSE
  LET res == t.leaves[k]
      rm == IF Len(t.measures) = 1 /\ risk_measure = 0 THEN t.measures[1] ELSE risk_measure
  IN IF rm # 0 /\ res.kind = "mapping"
       THEN IF rm \in DOMAIN res.mapping THEN ValueItem(res.mapping[rm])
            ELSE ErrorItem("KeyError")
     ELSE res

\* __paths keeping every path of the unresolved instrument, whatever the
\* pricing context the item was resolved in.
PortfolioRiskResult_paths_AnyContext(t, items) ==
  IF items.type = "int" THEN [paths |-> <<items.id + 1>>, error |-> ""]
  ELSE LET ps == paths(t.portfolio, items.id)
       IN IF ps = <<>> /\ items.unresolved # 0
            THEN LET us == paths(t.portfolio, items.unresolved)
                 IN IF us = <<>> THEN [paths |-> <<>>, error |-> "KeyError"]
                    ELSE [paths |-> us, error |-> ""]
          ELSE [paths |-> ps, error |-> ""]

\* PortfolioRiskResult.__paths(items): the positions (1-based here) an int or
\* an instrument stands for, or the exception raised. A resolved instrument
\* that the portfolio does not know is looked up by the instrument it was
\* resolved from, and only the positions whose result carries the item's
\* resolution key are kept.
PortfolioRiskResult_paths(t, items) ==
  IF items.type = "int" THEN [paths |-> <<items.id + 1>>, error |-> ""]
  ELSE LET ps == paths(t.portfolio, items.id)
       IN IF ps = <<>> /\ items.unresolved # 0
            THEN LET us == paths(t.portfolio, items.unresolved)
                     key == items.resolution_key
                     fs == SelectSeq(us, LAMBDA k :
                             PortfolioRiskResult_result(t, k, t.measures[1]).kind # "error"
                             /\ t.prov = key)
                 IN IF us = <<>> THEN [paths |-> <<>>, error |-> "KeyError"]
                    ELSE IF fs = <<>> THEN [paths |-> <<>>, error |-> "KeyError"]
                    ELSE [paths |-> fs, error |-> ""]
          ELSE [paths |-> ps, error |-> ""]

\* PortfolioRiskResult.__results(items) for an int or an instrument: the
\* result at the first of its paths, KeyError when it has none.
PortfolioRiskResult_results(t, items) ==
  LET ps == PortfolioRiskResult_paths(t, items)
  IN IF ps.error # "" THEN ErrorItem(ps.error)
     ELSE IF ps.paths = <<>> THEN ErrorItem("KeyError")
     ELSE PortfolioRiskResult_result(t, ps.paths[1], 0)

\* __iter__ walking the paths from the last to the first.
PortfolioRiskResult_iter_Reversed(t) ==
  LET ps == all_paths(t.portfolio)
  IN [k \in 1..Len(ps) |-> PortfolioRiskResult_result(t, ps[Len(ps) + 1 - k], 0)]

\* PortfolioRiskResult.__iter__: __results() with no items, the result at
\* every path of the portfolio.
PortfolioRiskResult_iter(t) ==
  LET ps == all_paths(t.portfolio)
  IN [k \in 1..Len(ps) |-> PortfolioRiskResult_result(t, ps[k], 0)]

\* _value_for_date reading the first row whatever the date.
_value_for_date_FirstRow(v, d) ==
  IF d \in DateSet(v.rows) THEN ValueItem(Scalar(d, v.rows[1][2]))
  ELSE ErrorItem("KeyError")

\* _value_for_date(result, date) for a series and one date: result.loc[date]
\* as a FloatWithInfo whose risk key carries the date.
_value_for_date(v, d) ==
  IF d \in DateSet(v.rows) THEN ValueItem(Scalar(d, At(v.rows, d)))
  ELSE ErrorItem("KeyError")

\* _value_for_risk_measure deleting the measures from its argument itself.
_value_for_risk_measure_InPlace(res, ms) ==
  LET filtered == [m \in DOMAIN res \cap Range(ms) |-> res[m]]
  IN [result |-> filtered, res |-> filtered]

\* _value_for_risk_measure(res, risk_measure): result is a copy of the mapping
\* without the measures that are not asked for; res is the argument as the
\* call leaves it.
_value_for_risk_measure(res, ms) ==
  LET filtered == [m \in DOMAIN res \cap Range(ms) |-> res[m]]
  IN [result |-> filtered, res |-> res]

\* MultipleRiskMeasureResult.__getitem__(date)
MappingForDate(f, d) ==
  IF \A m \in DOMAIN f : f[m].tag \in {"series", "table"}
    THEN IF \E m \in DOMAIN f : d \notin DateSet(f[m].rows) THEN ErrorItem("KeyError")
         ELSE MappingItem([m \in DOMAIN f |-> _value_for_date(f[m], d).value])
  ELSE ErrorItem("ValueError")

\* The first leaf that raised, if any, else the tree built from the leaves.
TreeOrError(pv, pf, ms, ls) ==
  LET bad == {k \in 1..Len(ls) : ls[k].kind = "error"}
  IN IF bad # {} THEN ls[CHOOSE k \in bad : \A j \in bad : k <= j]
     ELSE TreeItem(RTree(pv, pf, ms, ls))

\* The test that refuses a measure that was not computed, raising KeyError.
NotComputed_KeyError(t, ms) ==
  IF \E i \in 1..Len(ms) : ms[i] \notin Range(t.measures) THEN "KeyError" ELSE ""

\* if any(it not in self.risk_measures ...): raise ValueError('... not computed')
NotComputed(t, ms) ==
  IF \E i \in 1..Len(ms) : ms[i] \notin Range(t.measures) THEN "ValueError" ELSE ""

\* PortfolioRiskResult.__getitem__(item) for a risk measure or an iterable of
\* risk measures, ms being the measures asked for.
GetItemMeasures(t, ms) ==
  IF NotComputed(t, ms) # "" THEN ErrorItem(NotComputed(t, ms))
  ELSE IF Len(t.measures) = 1 THEN TreeItem(t)
  ELSE TreeOrError(t.prov, t.portfolio, ms,
         [k \in 1..Len(t.portfolio) |->
            LET it == PortfolioRiskResult_results(t, Instrument(t.portfolio[k]))
            IN IF it.kind = "mapping"
                 THEN MappingItem(_value_for_risk_measure(it.mapping, ms).result)
               ELSE IF it.kind = "error" THEN it
               ELSE ErrorItem("TypeError")])

\* The results the futures of t hold once t[ms] has returned: the mappings
\* handed to _value_for_risk_measure (self[priceable], the result at the
\* first path of each instrument) as that call leaves them.
LeavesAfterGetItemMeasures(t, ms) ==
  IF NotComputed(t, ms) # "" \/ Len(t.measures) = 1 THEN t.leaves
  ELSE [k \in 1..Len(t.leaves) |->
          IF t.leaves[k].kind = "mapping" /\ paths(t.portfolio, t.portfolio[k])[1] = k
            THEN MappingItem(_value_for_risk_measure(t.leaves[k].mapping, ms).res)
          ELSE t.leaves[k]]

\* PortfolioRiskResult.__getitem__(item) for a date
GetItemDate(t, d) ==
  TreeOrError(t.prov, t.portfolio, t.measures,
    [k \in 1..Len(t.portfolio) |->
       LET it == PortfolioRiskResult_results(t, Instrument(t.portfolio[k]))
       IN IF it.kind = "mapping" THEN MappingForDate(it.mapping, d)
          ELSE IF it.kind = "value" /\ it.value.tag \in {"series", "table"}
            THEN _value_for_date(it.value, d)
          ELSE IF it.kind = "error" THEN it
          ELSE ErrorItem("RuntimeError")])

\* item[key] for key = <<axis, k>>, axis "date", "measure" or "instrument"
GetItem(item, key) ==
  IF item.kind = "tree"
    THEN IF key[1] = "date" THEN GetItemDate(item.tree, key[2])
         ELSE IF key[1] = "measure" THEN GetItemMeasures(item.tree, <<key[2]>>)
         ELSE PortfolioRiskResult_results(item.tree, Instrument(key[2]))
  ELSE IF item.kind = "mapping"
    THEN IF key[1] = "date" THEN MappingForDate(item.mapping, key[2])
         ELSE IF key[1] = "measure" /\ key[2] \in DOMAIN item.mapping
           THEN ValueItem(item.mapping[key[2]])
         ELSE ErrorItem("KeyError")
  ELSE IF item.kind = "value"
    THEN IF item.value.tag = "series"
           THEN IF key[1] = "date" /\ key[2] \in DateSet(item.value.rows)
                  THEN ValueItem(Raw(At(item.value.rows, key[2])))
                ELSE ErrorItem("KeyError")
         ELSE ErrorItem("TypeError")
  ELSE item

\* item[keys[1]][keys[2]]...
RECURSIVE GetItems(_, _)
GetItems(item, keys) ==
  IF keys = <<>> THEN item ELSE GetItems(GetItem(item, Head(keys)), Tail(keys))

\* The orders in which a date, a measure and an instrument can be applied.
Orders ==
  << <<"date", "measure", "instrument">>, <<"measure", "date", "instrument">>,
     <<"measure", "instrument", "date">>, <<"instrument", "measure", "date">>,
     <<"instrument", "date", "measure">>, <<"date", "instrument", "measure">> >>

\* The measure items a tree may be sliced by: one measure, or a tuple of them.
MeasureItems == UNION {[1..n -> Measures] : n \in 0..NumMeasures}

\* The right operand of *: an int or float, or something else (a str).
Number(n) == [numeric |-> TRUE, val |-> n]
NotANumber == [numeric |-> FALSE, val |-> 0]
Factors == {Number(2), NotANumber}

\* value * other for a resolved value: a float, or a pandas Series row by row.
Scale(v, n) ==
  IF v.tag = "series" THEN Series([i \in 1..Len(v.rows) |-> <<v.rows[i][1], v.rows[i][2] * n>>])
  ELSE Times(v, n)

\* PricingFuture.__mul__ on a resolved leaf future holding res:
\* self.__class__(self.result() * other). For a MultipleRiskMeasureFuture the
\* class is constructed without its second argument.
PricingFuture_mul(res, other) ==
  IF other.numeric
    THEN IF res.kind = "value" THEN ValueItem(Scale(res.value, other.val))
         ELSE ErrorItem("TypeError")
  ELSE ErrorItem("ValueError")

\* MultipleRiskMeasureResult.__mul__
MultipleRiskMeasureResult_mul(f, other) ==
  IF other.numeric THEN MappingItem([m \in DOMAIN f |-> Scale(f[m], other.val)])
  ELSE ExceptionObject("ValueError")

\* PortfolioRiskResult.__mul__
PortfolioRiskResult_mul(t, other) ==
  IF other.numeric
    THEN TreeOrError(t.prov, t.portfolio, t.measures,
           [k \in 1..Len(t.leaves) |-> PricingFuture_mul(t.leaves[k], other)])
  ELSE ExceptionObject("ValueError")

\* What tree[item] may be called with: a position (0-based, one past the end
\* included), an instrument, or an instrument resolved in some context.
Items ==
  {Position(i) : i \in 0..MaxPortfolio} \cup {Instrument(p) : p \in Instruments}
  \cup {ResolvedInstrument(p, pv) : p \in Instruments, pv \in Provenances}

NoCall == [op |-> "none", arg |-> Instrument(0), factor |-> Number(0), out |-> <<>>]

VARIABLES
  idxTree,        \* the tree that is indexed
  idxKey,         \* the date, measure and instrument it is indexed by
  idxOut,         \* what tree[k1][k2][k3] returned, for the orders tried so far
  idxItem,        \* the measures the tree was sliced by
  idxSlice,       \* what tree[measures] returned
  idxCall         \* one call on the tree: tree[item], iter(tree) or a product

indexVars == <<idxTree, idxKey, idxOut, idxItem, idxSlice, idxCall>>

InitIndex ==
  /\ \E pv \in Provenances, pf \in Portfolios, ms \in MeasureTuples, ds \in TreeDateSets :
       LET t == MakeTree(1, pv, pf, ms, ds) IN idxTree = Resolved(t, OwnHeap(t))
  /\ idxKey \in [date : 1..NumDates, measure : Measures, instrument : Instruments]
  /\ idxOut = <<>>
  /\ idxItem = <<>>
  /\ idxSlice = NoItem
  /\ idxCall = NoCall

IndexIdle ==
  /\ idxTree = NoRTree
  /\ idxKey = [date |-> 0, measure |-> 0, instrument |-> 0]
  /\ idxOut = <<>>
  /\ idxItem = <<>>
  /\ idxSlice = NoItem
  /\ idxCall = NoCall

\* A tree as Portfolio.calc returned it, before any call on it.
InitCalls ==
  /\ \E pv \in Provenances, pf \in Portfolios, ms \in MeasureTuples, ds \in TreeDateSets :
       LET t == MakeTree(1, pv, pf, ms, ds) IN idxTree = Resolved(t, OwnHeap(t))
  /\ idxKey = [date |-> 0, measure |-> 0, instrument |-> 0]
  /\ idxOut = <<>>
  /\ idxItem = <<>>
  /\ idxSlice = NoItem
  /\ idxCall = NoCall

\* tree[k1][k2][k3] for the next order of the three keys
IndexInOrder ==
  /\ idxTree # NoRTree
  /\ Len(idxOut) < Len(Orders)
  /\ LET order == Orders[Len(idxOut) + 1]
         keys == [j \in 1..3 |-> <<order[j], idxKey[order[j]]>>]
     IN idxOut' = Append(idxOut, GetItems(TreeItem(idxTree), keys))
  /\ UNCHANGED <<idxTree, idxKey, idxItem, idxSlice, idxCall>>

\* tree[measure] or tree[(measure, ...)]
IndexMeasures ==
  /\ idxTree # NoRTree
  /\ idxSlice = NoItem
  /\ \E ms \in MeasureItems :
       /\ idxItem' = ms
       /\ idxSlice' = GetItemMeasures(idxTree, ms)
       /\ idxTree' = [idxTree EXCEPT !.leaves = LeavesAfterGetItemMeasures(idxTree, ms)]
  /\ UNCHANGED <<idxKey, idxOut, idxCall>>

\* tree[item] for an int or an instrument: __results(items=item)
GetItemCall ==
  /\ idxTree # NoRTree /\ idxCall.op = "none"
  /\ \E items \in Items :
       idxCall' = [op |-> "getitem", arg |-> items, factor |-> Number(0),
                   out |-> <<PortfolioRiskResult_results(idxTree, items)>>]
  /\ UNCHANGED <<idxTree, idxKey, idxOut, idxItem, idxSlice>>

\* tuple(tree): __iter__
IterCall ==
  /\ idxTree # NoRTree /\ idxCall.op = "none"
  /\ idxCall' = [op |-> "iter", arg |-> Instrument(0), factor |-> Number(0),
                 out |-> PortfolioRiskResult_iter(idxTree)]
  /\ UNCHANGED <<idxTree, idxKey, idxOut, idxItem, idxSlice>>

\* tree.futures[k] * other
TaskMul ==
  /\ idxTree # NoRTree /\ idxCall.op = "none"
  /\ \E k \in 1..Len(idxTree.leaves), other \in Factors :
       idxCall' = [op |-> "task mul", arg |-> Position(k - 1), factor |-> other,
                   out |-> <<PricingFuture_mul(idxTree.leaves[k], other)>>]
  /\ UNCHANGED <<idxTree, idxKey, idxOut, idxItem, idxSlice>>

\* tree[k] * other where tree[k] is a per-measure mapping
MappingMul ==
  /\ idxTree # NoRTree /\ idxCall.op = "none"
  /\ \E k \in 1..Len(idxTree.leaves), other \in Factors :
       /\ idxTree.leaves[k].kind = "mapping"
       /\ idxCall' = [op |-> "mapping mul", arg |-> Position(k - 1), factor |-> other,
                      out |-> <<MultipleRiskMeasureResult_mul(idxTree.leaves[k].mapping, other)>>]
  /\ UNCHANGED <<idxTree, idxKey, idxOut, idxItem, idxSlice>>

\* tree * other
TreeMul ==
  /\ idxTree # NoRTree /\ idxCall.op = "none"
  /\ \E other \in Factors :
       idxCall' = [op |-> "tree mul", arg |-> Instrument(0), factor |-> other,
                   out |-> <<PortfolioRiskResult_mul(idxTree, other)>>]
  /\ UNCHANGED <<idxTree, idxKey, idxOut, idxItem, idxSlice>>

\* ------------------------------------------- cancelling a shared composite

\* Two composites built over three pending children: child 2 is among the
\* futures of both, child 1 only of A, child 3 only of B.
Owners == {"A", "B"}
OwnerFutures == [c \in Owners |-> IF c = "A" THEN <<1, 2>> ELSE <<2, 3>>]
OwnedChildren == UNION {Range(OwnerFutures[c]) : c \in Owners}

VARIABLES
  ownerState,     \* Future._state of each composite: PENDING, CANCELLED or FINISHED
  ownerPending,   \* CompositeResultFuture.__pending of each composite
  ownerResult,    \* Future._result of each composite
  ownerInvalid,   \* how often set_result on a composite raised InvalidStateError
  childState,     \* Future._state of each child
  childCallbacks, \* Future._done_callbacks of each child: the composites' __cb, in order
  workerAt,       \* the thread completing each child: "run", "discard", "check", "done"
  workerLeft,     \* the callbacks that thread still has to invoke
  cancelCall      \* cancel() on each composite: called, what it returned, and the
                  \* children that were pending at the call

cancelVars == <<ownerState, ownerPending, ownerResult, ownerInvalid, childState,
                childCallbacks, workerAt, workerLeft, cancelCall>>

NoCancel == [called |-> FALSE, returned |-> FALSE, pendingChildren |-> {}]

\* The result a child is completed with.
ChildValue(i) == Scalar(1, 10 * i)

\* [f.result() for f in self.__futures]
OwnerResults(c) == [k \in 1..Len(OwnerFutures[c]) |-> ChildValue(OwnerFutures[c][k])]

\* The state after A and B were constructed, in either order, over children
\* that are all pending: every child is in __pending and has __cb registered.
InitCancel ==
  /\ ownerState = [c \in Owners |-> "PENDING"]
  /\ ownerPending = [c \in Owners |-> Range(OwnerFutures[c])]
  /\ ownerResult = [c \in Owners |-> <<>>]
  /\ ownerInvalid = 0
  /\ childState = [i \in OwnedChildren |-> "PENDING"]
  /\ \E order \in {<<"A", "B">>, <<"B", "A">>} :
       childCallbacks =
         [i \in OwnedChildren |-> SelectSeq(order, LAMBDA c : i \in Range(OwnerFutures[c]))]
  /\ workerAt = [i \in OwnedChildren |-> "run"]
  /\ workerLeft = [i \in OwnedChildren |-> <<>>]
  /\ cancelCall = [c \in Owners |-> NoCancel]

CancelIdle ==
  /\ ownerState = [c \in Owners |-> "PENDING"]
  /\ ownerPending = [c \in Owners |-> {}]
  /\ ownerResult = [c \in Owners |-> <<>>]
  /\ ownerInvalid = 0
  /\ childState = [i \in OwnedChildren |-> "PENDING"]
  /\ childCallbacks = [i \in OwnedChildren |-> <<>>]
  /\ workerAt = [i \in OwnedChildren |-> "done"]
  /\ workerLeft = [i \in OwnedChildren |-> <<>>]
  /\ cancelCall = [c \in Owners |-> NoCancel]

\* cancel() cancelling the children that only composite c has among its futures.
CancelledChildren_ExclusivelyOwned(c) ==
  {i \in Range(OwnerFutures[c]) : \A d \in Owners \ {c} : i \notin Range(OwnerFutures[d])}

\* The children cancel() on composite c cancels: CompositeResultFuture does not
\* override Future.cancel, which touches the future it is called on only.
CancelledChildren(c) == {}

\* composite.cancel(): a pending future becomes CANCELLED and True is
\* returned; a finished one is left as it is and False is returned.
Cancel(c) ==
  /\ ~cancelCall[c].called
  /\ cancelCall' = [cancelCall EXCEPT ![c] =
       [called |-> TRUE, returned |-> ownerState[c] = "PENDING",
        pendingChildren |-> {i \in Range(OwnerFutures[c]) : childState[i] = "PENDING"}]]
  /\ ownerState' = [ownerState EXCEPT ![c] = IF @ = "PENDING" THEN "CANCELLED" ELSE @]
  /\ childState' = [i \in OwnedChildren |->
       IF ownerState[c] = "PENDING" /\ i \in CancelledChildren(c) /\ childState[i] = "PENDING"
         THEN "CANCELLED" ELSE childState[i]]
  /\ UNCHANGED <<ownerPending, ownerResult, ownerInvalid, childCallbacks, workerAt,
                 workerLeft>>

\* Future.set_result on child i, on its worker thread; the callbacks follow.
CompleteChild(i) ==
  /\ workerAt[i] = "run"
  /\ childState[i] = "PENDING"
  /\ childState' = [childState EXCEPT ![i] = "FINISHED"]
  /\ workerLeft' = [workerLeft EXCEPT ![i] = childCallbacks[i]]
  /\ workerAt' = [workerAt EXCEPT ![i] = IF childCallbacks[i] # <<>> THEN "discard" ELSE "done"]
  /\ UNCHANGED <<ownerState, ownerPending, ownerResult, ownerInvalid, childCallbacks,
                 cancelCall>>

\* __cb of the next composite: self.__pending.discard(future)
OwnerCbDiscard(i) ==
  /\ workerAt[i] = "discard"
  /\ ownerPending' = [ownerPending EXCEPT ![Head(workerLeft[i])] = @ \ {i}]
  /\ workerAt' = [workerAt EXCEPT ![i] = "check"]
  /\ UNCHANGED <<ownerState, ownerResult, ownerInvalid, childState, childCallbacks,
                 workerLeft, cancelCall>>

\* __cb of the next composite: if not self.__pending: self._set_result().
\* set_result on a composite that is not pending raises InvalidStateError
\* (Python 3.8 and later; the callback's exception is logged and dropped) or
\* overwrites the state and the result (earlier versions).
OwnerCbCheck(i) ==
  /\ workerAt[i] = "check"
  /\ LET c == Head(workerLeft[i])
     IN IF NotPending(ownerPending[c])
          THEN \E strict \in BOOLEAN :
                 IF ownerState[c] = "PENDING" \/ ~strict
                   THEN /\ ownerState' = [ownerState EXCEPT ![c] = "FINISHED"]
                        /\ ownerResult' = [ownerResult EXCEPT ![c] = OwnerResults(c)]
                        /\ UNCHANGED ownerInvalid
                 ELSE /\ ownerInvalid' = ownerInvalid + 1
                      /\ UNCHANGED <<ownerState, ownerResult>>
        ELSE UNCHANGED <<ownerState, ownerResult, ownerInvalid>>
  /\ workerLeft' = [workerLeft EXCEPT ![i] = Tail(@)]
  /\ workerAt' = [workerAt EXCEPT ![i] = IF Len(workerLeft[i]) > 1 THEN "discard" ELSE "done"]
  /\ UNCHANGED <<ownerPending, childState, childCallbacks, cancelCall>>

CancelNext ==
  \/ \E c \in Owners : Cancel(c)
  \/ \E i \in OwnedChildren : CompleteChild(i)
  \/ \E i \in OwnedChildren : OwnerCbDiscard(i)
  \/ \E i \in OwnedChildren : OwnerCbCheck(i)

\* ------------------------------------------- ThreadPoolManager.run_async

NumTasks == 3     \* callables handed to run_async
MaxWorkers == 2   \* max_workers of the executor

\* The result of tasks[i] (i counted from 0, as enumerate does).
TaskValue(i) == Scalar(1, 10 * (i + 1))

VARIABLES
  tasks,          \* how many callables run_async was called with
  tasks_to_idx,   \* future -> position of its task; futures are numbered as submitted
  poolState,      \* each future: "queued", "running", "finished" or "failed"
  results,        \* the list run_async fills in
  yielded,        \* the futures as_completed has yielded
  poolPc,         \* run_async: "submit", "collect", "returned" or "raised"
  finishLog       \* the futures in the order they completed

poolVars == <<tasks, tasks_to_idx, poolState, results, yielded, poolPc, finishLog>>

InitPool ==
  /\ tasks \in 0..NumTasks
  /\ tasks_to_idx = <<>>
  /\ poolState = <<>>
  /\ results = <<>>
  /\ yielded = {}
  /\ poolPc = "submit"
  /\ finishLog = <<>>

PoolIdle ==
  /\ tasks = 0
  /\ tasks_to_idx = <<>>
  /\ poolState = <<>>
  /\ results = <<>>
  /\ yielded = {}
  /\ poolPc = "returned"
  /\ finishLog = <<>>

\* tasks_to_idx[cls.__executor.submit(cls.__run, ..., task)] = i
Submit ==
  /\ poolPc = "submit"
  /\ Len(tasks_to_idx) < tasks
  /\ tasks_to_idx' = Append(tasks_to_idx, Len(tasks_to_idx))
  /\ poolState' = Append(poolState, "queued")
  /\ UNCHANGED <<tasks, results, yielded, poolPc, finishLog>>

\* results = [None] * len(tasks_to_idx)
Allocate ==
  /\ poolPc = "submit"
  /\ Len(tasks_to_idx) = tasks
  /\ results' = [i \in 1..Len(tasks_to_idx) |-> NoValue]
  /\ poolPc' = "collect"
  /\ UNCHANGED <<tasks, tasks_to_idx, poolState, yielded, finishLog>>

\* A free worker of the pool takes the oldest queued work item.
WorkerStart(f) ==
  /\ f \in DOMAIN poolState
  /\ poolState[f] = "queued"
  /\ \A g \in 1..(f - 1) : poolState[g] # "queued"
  /\ Cardinality({g \in DOMAIN poolState : poolState[g] = "running"}) < MaxWorkers
  /\ poolState' = [poolState EXCEPT ![f] = "running"]
  /\ UNCHANGED <<tasks, tasks_to_idx, results, yielded, poolPc, finishLog>>

\* __run returns func()'s value, or func() raises: the future is done.
WorkerFinish(f) ==
  /\ f \in DOMAIN poolState
  /\ poolState[f] = "running"
  /\ \E ok \in BOOLEAN :
       poolState' = [poolState EXCEPT ![f] = IF ok THEN "finished" ELSE "failed"]
  /\ finishLog' = Append(finishLog, f)
  /\ UNCHANGED <<tasks, tasks_to_idx, results, yielded, poolPc>>

\* The result stored at the position of its arrival.
StoreResult_ArrivalOrder(rs, idx, arrived, v) == [rs EXCEPT ![arrived + 1] = v]

\* results[idx] = task.result(); arrived counts the results stored before.
StoreResult(rs, idx, arrived, v) == [rs EXCEPT ![idx + 1] = v]

\* for task in as_completed(tasks_to_idx): the next done future is yielded;
\* task.result() returns its value or re-raises its exception.
Collect(f) ==
  /\ poolPc = "collect"
  /\ f \in DOMAIN poolState
  /\ f \notin yielded
  /\ poolState[f] \in {"finished", "failed"}
  /\ yielded' = yielded \cup {f}
  /\ IF poolState[f] = "failed"
       THEN poolPc' = "raised" /\ UNCHANGED results
     ELSE /\ results' = StoreResult(results, tasks_to_idx[f], Cardinality(yielded),
                                    TaskValue(tasks_to_idx[f]))
          /\ UNCHANGED poolPc
  /\ UNCHANGED <<tasks, tasks_to_idx, poolState, finishLog>>

\* return results
Return ==
  /\ poolPc = "collect"
  /\ yielded = DOMAIN poolState
  /\ poolPc' = "returned"
  /\ UNCHANGED <<tasks, tasks_to_idx, poolState, results, yielded, finishLog>>

PoolNext ==
  \/ Submit
  \/ Allocate
  \/ \E f \in 1..NumTasks : WorkerStart(f)
  \/ \E f \in 1..NumTasks : WorkerFinish(f)
  \/ \E f \in 1..NumTasks : Collect(f)
  \/ Return

\* ------------------------------------------------- the backtest clock

MaxTime == 3      \* datetimes are the hours 0..MaxTime after 1900-01-01 00:00
DayLength == 2    \* hours in a day
MaxOffset == 1    \* largest utc offset of the handler's time zone, in hours

\* A dt.datetime (t in hours) or a dt.date (t in days).
DateTime(t) == [type |-> "datetime", t |-> t]
Date(d) == [type |-> "date", t |-> d]
States ==
  {DateTime(t) : t \in 0..MaxTime} \cup {Date(d) : d \in 0..(MaxTime \div DayLength)}

VARIABLES
  _time,          \* Clock._time
  tz,             \* DataHandler._tz, as its utc offset
  lastCall        \* the last call on the handler and how it ended

clockVars == <<_time, tz, lastCall>>

NoClockCall == [op |-> "none", args |-> <<>>, outcome |-> "none", sent |-> <<>>]

\* Clock.__init__: reset()
InitClock ==
  /\ _time = 0
  /\ tz \in (0 - MaxOffset)..MaxOffset
  /\ lastCall = NoClockCall

ClockIdle ==
  /\ _time = 0
  /\ tz = 0
  /\ lastCall = NoClockCall

\* Clock.update(time): the clock afterwards and the exception raised.
Clock_update(now, time) ==
  IF time < now THEN [time |-> now, error |-> "RuntimeError"]
  ELSE [time |-> time, error |-> ""]

\* Clock.time_check comparing dates only.
time_check_DateOnly(now, state) ==
  IF state.type = "datetime" THEN (state.t \div DayLength) > (now \div DayLength)
  ELSE state.t > (now \div DayLength)

\* Clock.time_check(state): whether the access looks ahead (RuntimeError).
time_check(now, state) ==
  IF state.type = "datetime" THEN state.t > now
  ELSE state.t > (now \div DayLength)

\* DataHandler._utc_time: a datetime is localized in tz and converted to utc,
\* a date is passed as it is.
_utc_time(state) ==
  IF state.type = "datetime" THEN DateTime(state.t - tz) ELSE state

\* DataHandler.update(state)
Update ==
  \E time \in 0..MaxTime :
    LET r == Clock_update(_time, time)
    IN /\ _time' = r.time
       /\ lastCall' = [op |-> "update", args |-> <<DateTime(time)>>,
                       outcome |-> IF r.error = "" THEN "returned" ELSE r.error,
                       sent |-> <<>>]
       /\ UNCHANGED tz

\* Clock.reset()
Reset ==
  /\ _time' = 0
  /\ lastCall' = [op |-> "reset", args |-> <<>>, outcome |-> "returned", sent |-> <<>>]
  /\ UNCHANGED tz

\* DataHandler.get_data(state, *key): sent is what the data manager is asked for.
get_data ==
  \E state \in States :
    /\ lastCall' =
         IF time_check(_time, state)
           THEN [op |-> "get_data", args |-> <<state>>, outcome |-> "RuntimeError",
                 sent |-> <<>>]
         ELSE [op |-> "get_data", args |-> <<state>>, outcome |-> "returned",
               sent |-> <<_utc_time(state)>>]
    /\ UNCHANGED <<_time, tz>>

\* DataHandler.get_data_range(start, end, *key)
get_data_range ==
  \E start \in States, end \in States :
    /\ lastCall' =
         IF time_check(_time, end) \/ start.type # end.type
           THEN [op |-> "get_data_range", args |-> <<start, end>>,
                 outcome |-> "RuntimeError", sent |-> <<>>]
         ELSE [op |-> "get_data_range", args |-> <<start, end>>, outcome |-> "returned",
               sent |-> <<_utc_time(start), _utc_time(end)>>]
    /\ UNCHANGED <<_time, tz>>

ClockNext ==
  \/ Update
  \/ Reset
  \/ get_data
  \/ get_data_range

vars ==
  <<engineVars, seriesVars, treeVars, indexVars, cancelVars, poolVars, clockVars>>

\* No composite is cancelled, no task list is run and no handler is called.
OthersIdle == CancelIdle /\ PoolIdle /\ ClockIdle

\* The engine: a composite of any class over any tuple of the leaves.
Init ==
  /\ \E fs \in FutureTuples, k \in Kinds : InitEngine(fs, k, 0)
  /\ SeriesIdle
  /\ TreeIdle
  /\ IndexIdle
  /\ OthersIdle

Next == EngineNext /\ UNCHANGED <<seriesVars, treeVars, indexVars, cancelVars, poolVars, clockVars>>

Spec == Init /\ [][Next]_vars

\* The engine with a calling thread that also evaluates results, adds,
\* multiplies and indexes: a MultipleRiskMeasureFuture or a tree over the
\* leaves in order.
InitOps ==
  /\ \E k \in {"multi", "list"} : InitEngine([j \in 1..NumLeaves |-> j], k, MaxOps)
  /\ SeriesIdle
  /\ TreeIdle
  /\ IndexIdle
  /\ OthersIdle

NextOps == (EngineNext \/ OpsNext) /\ UNCHANGED <<seriesVars, treeVars, indexVars, cancelVars, poolVars, clockVars>>

SpecOps == InitOps /\ [][NextOps]_vars

\* No future is being built or completed: the engine's variables stay as
\* constructed.
EngineIdle == InitEngine([k \in 1..NumLeaves |-> k], "list", 0)

\* _compose on every pair of operands.
InitCompose == EngineIdle /\ InitSeries /\ TreeIdle /\ IndexIdle /\ OthersIdle

NextSeries == Compose /\ UNCHANGED <<engineVars, treeVars, indexVars, cancelVars, poolVars, clockVars>>

SpecSeries == InitCompose /\ [][NextSeries]_vars

\* self + other on every pair of operand trees.
InitAdd == EngineIdle /\ SeriesIdle /\ InitTree /\ IndexIdle /\ OthersIdle

NextTree == TreeAdd /\ UNCHANGED <<engineVars, seriesVars, indexVars, cancelVars, poolVars, clockVars>>

SpecTree == InitAdd /\ [][NextTree]_vars

\* Index expressions on every tree.
InitIndexing == EngineIdle /\ SeriesIdle /\ TreeIdle /\ InitIndex /\ OthersIdle

NextIndex == (IndexInOrder \/ IndexMeasures) /\ UNCHANGED <<engineVars, seriesVars, treeVars, cancelVars, poolVars, clockVars>>

SpecIndex == InitIndexing /\ [][NextIndex]_vars

\* Single calls on a result tree: tree[int], tree[instrument], iteration, and
\* the products of a leaf task, a leaf mapping and the tree.
InitCalling == EngineIdle /\ SeriesIdle /\ TreeIdle /\ InitCalls /\ OthersIdle

NextCalls ==
  (GetItemCall \/ IterCall \/ TaskMul \/ MappingMul \/ TreeMul)
  /\ UNCHANGED <<engineVars, seriesVars, treeVars, cancelVars, poolVars, clockVars>>

SpecCalls == InitCalling /\ [][NextCalls]_vars

\* The result-side variables stay as constructed.
ResultsIdle == EngineIdle /\ SeriesIdle /\ TreeIdle /\ IndexIdle

\* Two composites sharing a child: cancellations and completions in any order.
InitCancelling == ResultsIdle /\ InitCancel /\ PoolIdle /\ ClockIdle

NextCancel ==
  CancelNext /\ UNCHANGED <<engineVars, seriesVars, treeVars, indexVars, poolVars, clockVars>>

SpecCancel == InitCancelling /\ [][NextCancel]_vars

\* run_async over a list of tasks and a pool of workers.
InitRunAsync == ResultsIdle /\ CancelIdle /\ InitPool /\ ClockIdle

NextPool ==
  PoolNext /\ UNCHANGED <<engineVars, seriesVars, treeVars, indexVars, cancelVars, clockVars>>

SpecPool == InitRunAsync /\ [][NextPool]_vars

\* A DataHandler called in any order.
InitHandler == ResultsIdle /\ CancelIdle /\ PoolIdle /\ InitClock

NextClock ==
  ClockNext /\ UNCHANGED <<engineVars, seriesVars, treeVars, indexVars, cancelVars, poolVars>>

SpecClock == InitHandler /\ [][NextClock]_vars

\* ================================================================ claims

\* Every thread has finished what it was doing: the workers have run their
\* callbacks, the calling thread is between operations.
Quiescent == \A th \in Threads : pc[th] \in {"idle", "done"}

AllChildrenDone == \A k \in 1..Len(futures) : Done(futures[k])

\* C1: a composite future is never Resolved while one of its children is
\* pending, and once Resolved its value holds the children's results in the
\* order the children were given, whatever order they completed in.
C1_ResolvedInChildOrder ==
  Done(CompT) =>
    /\ AllChildrenDone
    /\ kind \in {"list", "multi"} => cresult[CompT].items = ChildResults
    /\ kind = "list" => cresult[CompT].tag = "list"

\* A list composite over distinct children is Resolved although its first
\* child was not the first to complete.
C1_Witness ==
  /\ Done(CompT) /\ kind = "list"
  /\ futures[1] # futures[NumLeaves]
  /\ completionLog # <<>> /\ completionLog[1] # futures[1]

\* C2: once the last child of a composite built over at least one pending
\* child has completed, the composite leaves Pending.  As a final result:
\* when the constructor has returned, every child is done and every thread
\* has run its callbacks, the composite is Resolved.
C2_ResolvedAfterLastChild ==
  (Quiescent /\ ctor = "done" /\ ~startDone /\ AllChildrenDone) => Done(CompT)

\* C3: when the callbacks of several children fire concurrently, set_result
\* is invoked on the composite exactly once.  The children are distinct and
\* none completed while the constructor ran, so that every pending child
\* carries exactly one callback.
C3_ExactlyOneSynthesis ==
  (/\ Quiescent /\ ctor = "done" /\ AllChildrenDone
   /\ ~raced
   /\ \A j, k \in 1..Len(futures) : futures[j] = futures[k] => j = k)
  => setCalls[CompT] = 1

\* C4: no operation sets a result on a task that already holds one: set_result
\* is invoked at most once on every task.
C4_SetOnce == \A t \in Tasks : setCalls[t] <= 1

\* C5: a composite constructed over children that are all done is Resolved
\* when its constructor returns, and registers no callback.
C5_ResolvedAtConstruction ==
  startDone =>
    /\ ctor # "raised"
    /\ ctor = "done" => Done(CompT) /\ \A t \in Leaves : callbacks[t] = 0

C5_Witness == startDone /\ ctor = "done" /\ Done(CompT)

CallStep == pc[Main] = "call" /\ todo # <<>> /\ (pc'[Main] # "call" \/ todo' # todo)

\* The calling thread takes the step that ends its operation after every
\* result() call returned.
FinishStep == pc[Main] = "call" /\ todo = <<>> /\ pc'[Main] # "call"

\* C7: result() on a task that is not done while the pricing context is
\* entered fails at once with an error and changes no task; result() on a
\* done task returns its value, also while the context is entered.
C7_ResultGuard ==
  [][/\ (CallStep /\ mop = "result") =>
          IF Done(Head(todo))
            THEN pc'[Main] = "call" /\ todo' = <<>>
          ELSE IF entered
            THEN /\ pc'[Main] = "idle"
                 /\ lastOp'.outcome = "RuntimeError"
                 /\ UNCHANGED <<fstate, fresult, cresult, setCalls, pending, callbacks>>
          ELSE pc'[Main] = "wait"
     /\ (FinishStep /\ mop = "result") =>
          /\ lastOp'.outcome = "returned"
          /\ margs[1] \in Leaves => lastOp'.value = fresult[margs[1]]
          /\ margs[1] = CompT => lastOp'.cvalue = cresult[CompT]
          /\ UNCHANGED <<fstate, fresult, cresult, setCalls>>
    ]_vars

\* result() has failed on a pending task, the context being entered.
C7_Witness ==
  /\ lastOp.op = "result" /\ lastOp.outcome = "RuntimeError"
  /\ entered /\ ~Done(lastOp.a)

CompositionOps == {"add", "mul", "index", "addmulti"}

OperandHeap == OwnHeap(treeSelf) @@ OwnHeap(treeOther)

\* C9: addition never mutates its operands: after self + other has returned or
\* raised, every leaf mapping of self and of other holds exactly the measure
\* keys and values it held before (the leaves of a single-measure operand are
\* immutable values).
C9_OperandsUnchanged ==
  treeOutcome # "none" =>
    \A a \in DOMAIN OperandHeap : heap[a] = OperandHeap[a]

\* C10: _compose of two series is their union on the date axis, ascending by
\* date, where every date of rhs carries rhs's value and every date only lhs
\* has carries lhs's value.
C10_RightOperandWins ==
  (composed.tag # "none" /\ composeLhs.tag = "series" /\ composeRhs.tag = "series") =>
    /\ composed.tag = "series"
    /\ Index(composed.rows) =
         SortedSeq(DateSet(composeLhs.rows) \cup DateSet(composeRhs.rows))
    /\ \A d \in DateSet(composeRhs.rows) :
         At(composed.rows, d) = At(composeRhs.rows, d)
    /\ \A d \in DateSet(composeLhs.rows) \ DateSet(composeRhs.rows) :
         At(composed.rows, d) = At(composeLhs.rows, d)

\* C10 (amended): _compose of two series is their union on the date axis,
\* ascending by date, where every date at which rhs holds a non-null value
\* carries rhs's value and every other date carries lhs's value (NaN when lhs
\* lacks the date).
C10_RightNonNullWins ==
  (composed.tag # "none" /\ composeLhs.tag = "series" /\ composeRhs.tag = "series") =>
    /\ composed.tag = "series"
    /\ Index(composed.rows) =
         SortedSeq(DateSet(composeLhs.rows) \cup DateSet(composeRhs.rows))
    /\ \A d \in DateSet(composed.rows) :
         At(composed.rows, d) =
           IF d \in DateSet(composeRhs.rows) /\ At(composeRhs.rows, d) # NaN
             THEN At(composeRhs.rows, d)
           ELSE IF d \in DateSet(composeLhs.rows) THEN At(composeLhs.rows, d)
           ELSE NaN

\* Two series were composed that conflict on a date where both hold a value,
\* the left one unsorted and holding a date the right one lacks.
C10_Witness ==
  /\ composed.tag = "series"
  /\ composeLhs.tag = "series" /\ composeRhs.tag = "series"
  /\ \E d \in DateSet(composeLhs.rows) \cap DateSet(composeRhs.rows) :
       /\ At(composeLhs.rows, d) # NaN
       /\ At(composeRhs.rows, d) # NaN
       /\ At(composed.rows, d) = At(composeRhs.rows, d)
  /\ DateSet(composeLhs.rows) \ DateSet(composeRhs.rows) # {}
  /\ Index(composeLhs.rows) # SortedSeq(DateSet(composeLhs.rows))

\* C11: _compose of a scalar lhs and a series rhs promotes the scalar to a
\* one-row series at its date and unions it with rhs; where rhs already has a
\* value at the scalar's date the result carries rhs's value.
C11_RhsOverwritesScalar ==
  (composed.tag # "none" /\ composeLhs.tag = "scalar" /\ composeRhs.tag = "series") =>
    /\ composed.tag = "series"
    /\ DateSet(composed.rows) = DateSet(composeRhs.rows) \cup {composeLhs.date}
    /\ composeLhs.date \in DateSet(composeRhs.rows) =>
         At(composed.rows, composeLhs.date) = At(composeRhs.rows, composeLhs.date)

\* C12: _compose of two scalars returns rhs when both carry the same date and
\* raises when their dates differ.
C12_ScalarsOfDifferentDatesRaise ==
  (composed.tag # "none" /\ composeLhs.tag = "scalar" /\ composeRhs.tag = "scalar") =>
    IF composeLhs.date = composeRhs.date THEN composed = composeRhs
    ELSE composed.tag = "raise"

\* C12 (amended): _compose of two scalars returns rhs when both carry the same
\* date; when their dates differ it raises nothing and returns
\* lhs.compose((lhs, rhs)), the series holding lhs at its date and rhs at its.
C12_ScalarsOfDifferentDatesCompose ==
  (composed.tag # "none" /\ composeLhs.tag = "scalar" /\ composeRhs.tag = "scalar") =>
    IF composeLhs.date = composeRhs.date THEN composed = composeRhs
    ELSE /\ composed.tag = "series"
         /\ composed.rows = << <<composeLhs.date, composeLhs.val>>,
                               <<composeRhs.date, composeRhs.val>> >>

\* Two scalars of different dates were composed into a series.
C12_Witness ==
  /\ composeLhs.tag = "scalar" /\ composeRhs.tag = "scalar"
  /\ composeLhs.date # composeRhs.date
  /\ composed.tag = "series"

\* The rows of a table operand as _compose indexes them, as a set.
RowSet(t) == Range(set_index_date(t))

\* C13: _compose of two tables keeps every lhs row whose key (date) is absent
\* from rhs, drops every lhs row whose key is present in rhs, contains all rows
\* of rhs, and is sorted by the date axis.
C13_TableRowsReplacedByKey ==
  (composed.tag # "none" /\ composeLhs.tag = "table" /\ composeRhs.tag = "table") =>
    /\ composed.tag = "table"
    /\ Range(composed.rows) =
         {row \in RowSet(composeLhs) : \A other \in RowSet(composeRhs) : other[1] # row[1]}
           \cup RowSet(composeRhs)
    /\ Len(composed.rows) = Cardinality(Range(composed.rows))
    /\ \A i, j \in 1..Len(composed.rows) :
         i < j => composed.rows[i][1] <= composed.rows[j][1]

\* Two tables were composed where one lhs row was dropped for an rhs row of
\* its date, another was kept, and the kept row sorts after an rhs row.
C13_Witness ==
  /\ composed.tag = "table"
  /\ composeLhs.tag = "table" /\ composeRhs.tag = "table"
  /\ \E row \in RowSet(composeLhs) : row \notin Range(composed.rows)
  /\ \E row \in RowSet(composeLhs) :
       /\ row \in Range(composed.rows)
       /\ \E other \in RowSet(composeRhs) : other[1] < row[1]

\* C14: adding two MultipleRiskMeasureFutures of one instrument returns a
\* Resolved task holding the per-measure union of their mappings: the key set
\* is the union of both key sets and a measure present on both sides holds
\* _compose(lhs value, rhs value).  (Stated for operands whose result() returned
\* values that are not errors.)
C14_PerMeasureUnion ==
  (/\ lastOp.op = "addmulti"
   /\ lastOp.outcome # "RuntimeError"
   /\ \A k \in 1..Len(futures) : ~IsError(fresult[futures[k]])) =>
    /\ lastOp.outcome = "returned"
    /\ Done(RetM)
    /\ lastOp.cvalue.tag = "mrmr"
    /\ Len(lastOp.cvalue.items) = Len(futures)
    /\ \A k \in 1..Len(futures) :
         lastOp.cvalue.items[k] = _compose(fresult[futures[k]], fresult[futures[k]])

MeasuresOverlap == Range(treeSelf.measures) \cap Range(treeOther.measures) # {}
DatesOverlap == treeSelf.dset \cap treeOther.dset # {}
InstrumentsOverlap == Range(treeSelf.portfolio) \cap Range(treeOther.portfolio) # {}

\* C15: tree + tree succeeds only if the operands' risk-measure sets, date sets
\* and instrument sets are pairwise disjoint; operands that overlap are refused
\* with the ValueError "results overlap" and no tree is returned.
C15_DisjointOrOverlapError ==
  treeOutcome # "none" =>
    IF MeasuresOverlap \/ DatesOverlap \/ InstrumentsOverlap
      THEN treeOutcome = "ValueError(overlap)" /\ treeRet = NoTree
      ELSE treeOutcome # "ValueError(overlap)"

\* C15 (amended): tree + tree fails with the ValueError "results overlap", and
\* returns no tree, exactly when the operands overlap on risk measures and on
\* dates and on instruments at once.
C15_OverlapOnAllAxes ==
  treeOutcome # "none" =>
    /\ treeOutcome = "ValueError(overlap)" <=>
         (MeasuresOverlap /\ DatesOverlap /\ InstrumentsOverlap)
    /\ treeOutcome = "ValueError(overlap)" => treeRet = NoTree

\* Two trees that share a measure and an instrument but no date were added and
\* a tree was returned.
C15_Witness ==
  /\ treeOutcome = "returned"
  /\ treeRet # NoTree
  /\ MeasuresOverlap /\ InstrumentsOverlap /\ ~DatesOverlap

\* C16: tree + tree raises a ValueError whenever the operands' risk keys
\* without the measure differ (scenario or location); a combined tree is
\* returned only when they match.
C16_IncompatibleProvenanceRaises ==
  (treeOutcome # "none" /\ treeSelf.prov # treeOther.prov) =>
    /\ treeOutcome \in {"ValueError(provenance)", "ValueError(overlap)"}
    /\ treeRet = NoTree

\* The sum's leaf at position k holds, for every measure of operand t, the
\* value t holds at position j.
SumHolds(k, t, j) ==
  /\ treeRet.futs[k].ref \in DOMAIN heap
  /\ \A m \in Range(t.measures) :
       /\ m \in DOMAIN heap[treeRet.futs[k].ref]
       /\ heap[treeRet.futs[k].ref][m] = Value(t.side, j, m, t.dset)

\* C17: for trees A and B over the same portfolio with disjoint risk-measure
\* sets (and matching provenance), A + B completes and the sum holds, for every
\* instrument, A's value under A's measures and B's value under B's measures.
C17_SamePortfolioSum ==
  (/\ treeOutcome # "none"
   /\ treeSelf.portfolio = treeOther.portfolio
   /\ treeSelf.prov = treeOther.prov
   /\ ~MeasuresOverlap) =>
    /\ treeOutcome = "returned"
    /\ Len(treeRet.futs) = Len(treeSelf.portfolio)
    /\ \A k \in 1..Len(treeRet.futs) :
         SumHolds(k, treeSelf, k) /\ SumHolds(k, treeOther, k)

\* The dates of the series the indexed tree holds.
IndexedDates ==
  UNION {IF idxTree.leaves[k].kind = "mapping"
           THEN MappingDates(idxTree.leaves[k].mapping)
         ELSE IF idxTree.leaves[k].value.tag = "series"
           THEN DateSet(idxTree.leaves[k].value.rows)
         ELSE {} : k \in 1..Len(idxTree.leaves)}

\* The tree is historical and multi-measure and holds the three keys.
HistoricalMultiMeasure ==
  /\ Len(idxTree.measures) > 1
  /\ idxKey.date \in IndexedDates
  /\ idxKey.measure \in Range(idxTree.measures)
  /\ idxKey.instrument \in Range(idxTree.portfolio)

\* C18: on a historical multi-measure tree, indexing by a date, a measure and
\* an instrument returns a value, and the same value in each of the six orders
\* in which the three keys can be applied.
C18_IndexOrderIrrelevant ==
  HistoricalMultiMeasure =>
    \A j \in 1..Len(idxOut) :
      /\ idxOut[j].kind = "value"
      /\ idxOut[j].value.tag \in {"scalar", "raw"}
      /\ idxOut[j].value.val = idxOut[1].value.val

\* All six orders were applied to a historical two-instrument tree, for its
\* second date and second instrument.
C18_Witness ==
  /\ HistoricalMultiMeasure
  /\ Len(idxOut) = Len(Orders)
  /\ idxOut[Len(Orders)].kind = "value"
  /\ idxKey.date > 1 /\ Cardinality(IndexedDates) > 1
  /\ idxTree.portfolio = <<1, 2>> /\ idxKey.instrument = 2

\* A single-measure operand of the addition and the sum, by what they hold.
SumTree == Resolved(treeRet, heap)
OperandsDisjointSingle ==
  /\ treeOutcome # "none"
  /\ Len(treeSelf.measures) = 1 /\ Len(treeOther.measures) = 1
  /\ ~InstrumentsOverlap

\* C19: the sum of two single-measure trees over disjoint instrument sets is as
\* long as both operands together, and indexing it by an instrument of either
\* operand returns the value the instrument had in its own tree.
C19_SumIndexedByInstrument ==
  OperandsDisjointSingle =>
    /\ treeOutcome = "returned"
    /\ Len(treeRet.futs) = Len(treeSelf.futs) + Len(treeOther.futs)
    /\ \A t \in {treeSelf, treeOther} : \A p \in Range(t.portfolio) :
         PortfolioRiskResult_results(SumTree, Instrument(p)) =
           PortfolioRiskResult_results(Resolved(t, heap), Instrument(p))

\* C19 (amended): ... indexing the sum by an instrument returns the value the
\* instrument had in its own tree when both operands were computed for the same
\* measure, and otherwise the mapping holding that value under the operand's
\* measure and nothing else.
C19_SumIndexedByInstrumentPerMeasure ==
  OperandsDisjointSingle =>
    /\ treeOutcome = "returned"
    /\ Len(treeRet.futs) = Len(treeSelf.futs) + Len(treeOther.futs)
    /\ \A t \in {treeSelf, treeOther} : \A p \in Range(t.portfolio) :
         LET own == PortfolioRiskResult_results(Resolved(t, heap), Instrument(p))
         IN PortfolioRiskResult_results(SumTree, Instrument(p)) =
              IF treeSelf.measures = treeOther.measures THEN own
              ELSE MappingItem(t.measures[1] :> own.value)

\* Two single-measure trees of the same measure over disjoint instruments, one
\* of them holding an instrument twice, were added.
C19_Witness ==
  /\ OperandsDisjointSingle
  /\ treeOutcome = "returned"
  /\ treeSelf.measures = treeOther.measures
  /\ treeSelf.portfolio = <<1, 1>>
  /\ PortfolioRiskResult_results(SumTree, Instrument(1)) = ValueItem(treeSelf.futs[1].val)

C21_SliceByMeasure ==
  [][(idxSlice = NoItem /\ idxSlice' # NoItem
      /\ \A i \in 1..Len(idxItem') : idxItem'[i] \in Range(idxTree.measures)) =>
       /\ idxTree' = idxTree
       /\ idxSlice'.kind = "tree"
       /\ IF Len(idxTree.measures) = 1 THEN idxSlice'.tree = idxTree
          ELSE /\ ~idxSlice'.tree.original
               /\ idxSlice'.tree.portfolio = idxTree.portfolio
               /\ Len(idxSlice'.tree.leaves) = Len(idxTree.leaves)
               /\ \A k \in 1..Len(idxSlice'.tree.leaves) :
                    /\ idxSlice'.tree.leaves[k].kind = "mapping"
                    /\ DOMAIN idxSlice'.tree.leaves[k].mapping = Range(idxItem')]_vars

C21_Witness ==
  /\ idxSlice.kind = "tree" /\ ~idxSlice.tree.original
  /\ Len(idxItem) = 1 /\ Len(idxTree.measures) = 2 /\ Len(idxTree.portfolio) = 2
  /\ \A k \in 1..2 : DOMAIN idxTree.leaves[k].mapping = Range(idxTree.measures)

\* What Portfolio.calc computed for position k of the indexed tree's portfolio.
PositionValue(k) ==
  IF Len(idxTree.measures) = 1
    THEN ValueItem(Value(1, k, idxTree.measures[1], IndexedDates))
  ELSE MappingItem([m \in Range(idxTree.measures) |-> Value(1, k, m, IndexedDates)])

\* C22: a tree's children are in the order of its portfolio: tree[i] is the
\* value of the i-th instrument, tree[instrument] is the value at the first
\* position of that instrument, and iterating the tree yields the value of
\* every position in portfolio order, one per position of a duplicated
\* instrument.
C22_PortfolioOrder ==
  /\ (idxCall.op = "getitem" /\ idxCall.arg.type = "int"
        /\ idxCall.arg.id < Len(idxTree.portfolio)) =>
       idxCall.out = <<PositionValue(idxCall.arg.id + 1)>>
  /\ (idxCall.op = "getitem" /\ idxCall.arg.type = "instrument"
        /\ idxCall.arg.id \in Range(idxTree.portfolio)) =>
       \E k \in 1..Len(idxTree.portfolio) :
         /\ idxTree.portfolio[k] = idxCall.arg.id
         /\ \A j \in 1..(k - 1) : idxTree.portfolio[j] # idxCall.arg.id
         /\ idxCall.out = <<PositionValue(k)>>
  /\ idxCall.op = "iter" =>
       idxCall.out = [k \in 1..Len(idxTree.portfolio) |-> PositionValue(k)]

C22_Witness ==
  /\ idxCall.op = "iter"
  /\ idxTree.portfolio = <<2, 1>>
  /\ Len(idxCall.out) = 2 /\ idxCall.out[1] # idxCall.out[2]

\* C23: tree[r], for an instrument r resolved from an instrument of the tree's
\* portfolio, returns what indexing by that original returns when r was
\* resolved in the pricing context that produced the tree, and raises KeyError
\* when r was resolved in another pricing context.
C23_ResolvedInstrumentLookup ==
  (idxCall.op = "getitem" /\ idxCall.arg.type = "instrument"
     /\ idxCall.arg.unresolved \in Range(idxTree.portfolio)) =>
    IF idxCall.arg.resolution_key = idxTree.prov
      THEN \E k \in 1..Len(idxTree.portfolio) :
             /\ idxTree.portfolio[k] = idxCall.arg.unresolved
             /\ \A j \in 1..(k - 1) : idxTree.portfolio[j] # idxCall.arg.unresolved
             /\ idxCall.out = <<PositionValue(k)>>
    ELSE idxCall.out = <<ErrorItem("KeyError")>>

C23_Witness ==
  /\ idxCall.op = "getitem"
  /\ idxCall.arg = ResolvedInstrument(2, 2)
  /\ idxTree.portfolio = <<1, 2>> /\ idxTree.prov = 1
  /\ idxCall.out = <<ErrorItem("KeyError")>>

\* C24: tree[i] returns the result of child i itself: a child that completed
\* with its value is read as that value whether or not a sibling failed or is
\* still pending, and reading a child ends in no other way than returning its
\* result or the RuntimeError of a pending read inside an entered context.
C24_FailedLeafLeavesSiblings ==
  lastOp.op = "index" =>
    /\ lastOp.outcome \in {"returned", "RuntimeError"}
    /\ lastOp.outcome = "returned" =>
         /\ lastOp.value = fresult[futures[lastOp.a]]
         /\ lastOp.value \in {LeafValue(futures[lastOp.a], ok) : ok \in BOOLEAN}

C24_Witness ==
  /\ lastOp.op = "index" /\ lastOp.outcome = "returned"
  /\ kind = "list" /\ futures[lastOp.a] = 2
  /\ lastOp.value = LeafValue(2, TRUE)
  /\ IsError(fresult[1])

\* Every thread that completes a child has run the child's callbacks.
WorkersDone == \A i \in OwnedChildren : workerAt[i] = "done"

\* C25 as stated: a cancel() that found the composite pending cancels the
\* children that were pending and that only this composite has among its
\* futures, and no child that another composite has too.
C25_CancelPropagatesToOwned ==
  \A c \in Owners :
    cancelCall[c].returned =>
      /\ \A i \in cancelCall[c].pendingChildren \cap CancelledChildren_ExclusivelyOwned(c) :
           childState[i] = "CANCELLED"
      /\ \A i \in Range(OwnerFutures[c]) \ CancelledChildren_ExclusivelyOwned(c) :
           childState[i] # "CANCELLED"

\* C25, amended: cancel() on a composite cancels no child, shared or not:
\* every child still completes, and once the callbacks have run a composite
\* that was not cancelled is resolved with the results of its children.
C25_CancelLeavesChildren ==
  (\E c \in Owners : cancelCall[c].called) =>
    /\ \A i \in OwnedChildren : childState[i] # "CANCELLED"
    /\ \A i \in OwnedChildren : workerAt[i] # "run" => childState[i] = "FINISHED"
    /\ WorkersDone =>
         \A d \in Owners :
           ~cancelCall[d].called =>
             ownerState[d] = "FINISHED" /\ ownerResult[d] = OwnerResults(d)

C25_Witness ==
  /\ cancelCall["A"].returned
  /\ cancelCall["A"].pendingChildren = {1, 2}
  /\ ~cancelCall["B"].called
  /\ WorkersDone
  /\ childState[1] = "FINISHED"
  /\ ownerState["B"] = "FINISHED"

\* C26: a leaf task, a per-measure mapping or a tree times an operand that is
\* not a number raises an error: the call hands no value back to the caller.
\* (The claim names the class of the error, TypeError; the formula asks only
\* for an error to be raised.)
C26_NonNumericMultiplyRaises ==
  (idxCall.op \in {"task mul", "mapping mul", "tree mul"} /\ ~idxCall.factor.numeric) =>
    idxCall.out[1].kind = "error"

\* C27: when a child completed on another thread while the composite over
\* distinct children was being constructed, the composite is not Resolved
\* before every child is done, and once the constructor has returned, every
\* child is done and every callback has run, it is Resolved, its result was
\* set exactly once, and no child is left in its pending set.
C27_ConstructionRace ==
  (raced /\ \A j, k \in 1..Len(futures) : futures[j] = futures[k] => j = k) =>
    /\ Done(CompT) => AllChildrenDone
    /\ (Quiescent /\ ctor = "done" /\ AllChildrenDone) =>
         /\ Done(CompT)
         /\ setCalls[CompT] = 1
         /\ pending = {}

\* C28: a composite some child of which occurs at two positions, none of its
\* children completing while it is constructed, has its result set at most
\* once, and exactly once when every child is done and the callbacks have run.
C28_SharedChildSetsOnce ==
  (/\ \E j, k \in 1..Len(futures) : j # k /\ futures[j] = futures[k]
   /\ ~raced)
  => /\ setCalls[CompT] <= 1
     /\ (Quiescent /\ ctor = "done" /\ AllChildrenDone) => setCalls[CompT] = 1

\* C29: the list run_async returns has one position per task, and position i
\* holds the result of task i, in whatever order the tasks completed.
C29_ResultsInTaskOrder ==
  poolPc = "returned" =>
    /\ Len(results) = tasks
    /\ \A i \in 1..tasks : results[i] = TaskValue(i - 1)

\* run_async has returned for three tasks of which the first completed last.
C29_Witness ==
  /\ poolPc = "returned"
  /\ tasks = NumTasks /\ Len(results) = NumTasks
  /\ Len(finishLog) = NumTasks /\ finishLog[NumTasks] = 1

\* C30: between resets the clock never moves backwards: an update to an
\* earlier time raises and leaves the clock where it was; and a get_data or
\* get_data_range that reaches the data manager asks for no datetime later
\* than the clock: a request for a later datetime raises instead.
C30_NoLookahead ==
  [][/\ lastCall'.op # "reset" => _time' >= _time
     /\ (lastCall'.op = "update" /\ lastCall'.args[1].t < _time) =>
          lastCall'.outcome = "RuntimeError" /\ _time' = _time
     /\ (lastCall'.op = "get_data" /\ lastCall'.args[1].type = "datetime") =>
          IF lastCall'.args[1].t > _time
            THEN lastCall'.outcome = "RuntimeError" /\ lastCall'.sent = <<>>
          ELSE lastCall'.outcome = "returned"
     /\ (lastCall'.op = "get_data_range" /\ lastCall'.outcome = "returned"
           /\ lastCall'.args[2].type = "datetime") =>
          \A t \in lastCall'.args[1].t..lastCall'.args[2].t : t <= _time
     /\ (lastCall'.op = "get_data_range" /\ lastCall'.args[2].type = "datetime"
           /\ lastCall'.args[2].t > _time) =>
          lastCall'.outcome = "RuntimeError" /\ lastCall'.sent = <<>>]_vars

\* A request for a datetime after the clock raised, the clock having advanced.
C30_Witness ==
  /\ lastCall.op = "get_data" /\ lastCall.outcome = "RuntimeError"
  /\ lastCall.args[1].type = "datetime"
  /\ _time > 0 /\ lastCall.args[1].t > _time

====
